---- MODULE Spec2Model ----
(***************************************************************************)
(* Model of the StateMod data set of cdss-lib-models-python:               *)
(* StateMod_DataSet.read_statemod_file (the response-file orchestrator),   *)
(* StateMod_DataSet.check_component_visibility, the time series reader     *)
(* entry point StateMod_TS.read_time_series_list and the diversion station *)
(* reader / right connector of StateMod_Diversion.                         *)
(***************************************************************************)
EXTENDS Integers, Sequences, FiniteSets, TLC

(***************************************************************************)
(* Bounds.                                                                 *)
(***************************************************************************)
\* Largest number of time series (or stations, or rights) held by a data file.
MaxSeries == 2

(***************************************************************************)
(* Component registry (StateMod_DataSetComponentType, StateMod_DataSet).   *)
(* A component type is named by its enumeration member; position i+1 of    *)
(* the tables below is the entry for the member whose value is i.          *)
(***************************************************************************)
ComponentTypes ==
    <<
       "CONTROL_GROUP", "RESPONSE", "CONTROL", "OUTPUT_REQUEST", "REACH_DATA",
       "CONSUMPTIVE_USE_GROUP", "STATECU_STRUCTURE", "IRRIGATION_PRACTICE_TS_YEARLY",
       "CONSUMPTIVE_WATER_REQUIREMENT_TS_MONTHLY", "CONSUMPTIVE_WATER_REQUIREMENT_TS_DAILY",
       "STREAMGAGE_GROUP", "STREAMGAGE_STATIONS", "STREAMGAGE_HISTORICAL_TS_MONTHLY",
       "STREAMGAGE_HISTORICAL_TS_DAILY", "STREAMGAGE_NATURAL_FLOW_TS_MONTHLY",
       "STREAMGAGE_NATURAL_FLOW_TS_DAILY", "DELAY_TABLE_MONTHLY_GROUP", "DELAY_TABLES_MONTHLY",
       "DELAY_TABLE_DAILY_GROUP", "DELAY_TABLES_DAILY", "DIVERSION_GROUP", "DIVERSION_STATIONS",
       "DIVERSION_RIGHTS", "DIVERSION_TS_MONTHLY", "DIVERSION_TS_DAILY", "DEMAND_TS_MONTHLY",
       "DEMAND_TS_OVERRIDE_MONTHLY", "DEMAND_TS_AVERAGE_MONTHLY", "DEMAND_TS_DAILY",
       "PRECIPITATION_GROUP", "PRECIPITATION_TS_MONTHLY", "PRECIPITATION_TS_YEARLY",
       "EVAPORATION_GROUP", "EVAPORATION_TS_MONTHLY", "EVAPORATION_TS_YEARLY", "RESERVOIR_GROUP",
       "RESERVOIR_STATIONS", "RESERVOIR_RIGHTS", "RESERVOIR_CONTENT_TS_MONTHLY",
       "RESERVOIR_CONTENT_TS_DAILY", "RESERVOIR_TARGET_TS_MONTHLY", "RESERVOIR_TARGET_TS_DAILY",
       "RESERVOIR_RETURN", "INSTREAM_GROUP", "INSTREAM_STATIONS", "INSTREAM_RIGHTS",
       "INSTREAM_DEMAND_TS_MONTHLY", "INSTREAM_DEMAND_TS_AVERAGE_MONTHLY",
       "INSTREAM_DEMAND_TS_DAILY", "WELL_GROUP", "WELL_STATIONS", "WELL_RIGHTS",
       "WELL_PUMPING_TS_MONTHLY", "WELL_PUMPING_TS_DAILY", "WELL_DEMAND_TS_MONTHLY",
       "WELL_DEMAND_TS_DAILY", "PLAN_GROUP", "PLANS", "PLAN_WELL_AUGMENTATION", "PLAN_RETURN",
       "STREAMESTIMATE_GROUP", "STREAMESTIMATE_STATIONS", "STREAMESTIMATE_COEFFICIENTS",
       "STREAMESTIMATE_NATURAL_FLOW_TS_MONTHLY", "STREAMESTIMATE_NATURAL_FLOW_TS_DAILY",
       "RIVER_NETWORK_GROUP", "RIVER_NETWORK", "NETWORK", "OPERATION_GROUP", "OPERATION_RIGHTS",
       "DOWNSTREAM_CALL_TS_DAILY", "SANJUAN_RIP", "RIO_GRANDE_SPILL", "GEOVIEW_GROUP", "GEOVIEW"
    >>

\* Response-file key of every component type, typographical slips included.
statemod_file_properties ==
    <<
       "", "Response", "Control", "OutputRequest", "Reach_Data", "", "StateCU_Structure",
       "IrrigationPractice_Yearly", "ConsumptiveWaterRequirement_Monthly",
       "ConsumptiveWaterRequirement_Daily", "", "StreamGage_Station",
       "StreamGage_Historic_Monthly", "StreamGage_Historic_Daily", "Stream_Base_Monthly",
       "Stream_Base_Daily", "", "DelayTable_Monthly", "", "DelayTabe_Daily", "",
       "Diversion_Station", "Diversion_Right", "Diversion_Historic_Monthly",
       "Diversion_Historic_Daily", "Diversion_Demand_Monthly", "Diversion_DemandOverride_Monthly",
       "Diversion_Demand_AverageMonthly", "Diversion_Demand_Daily", "", "Precipitation_Monthly",
       "Precipitation_Annual", "", "Evaporation_Monthly", "Evaporation_Annual", "",
       "Reservoir_Station", "Reservoir_Right", "Reservoir_Historic_Monthly",
       "Reservoir_Historic_Daily", "Reservoir_Target_Monthly", "Reservoir_Target_Daily",
       "Reservoir_Return", "", "Instreamflow_Station", "Instreamflow_Right",
       "Instreamflow_Demand_Monthly", "Instreamflow_Demand_AverageMonthly",
       "Instreamflow_Demand_Daily", "", "Well_Station", "Well_Right", "Well_Historic_Monthly",
       "Well_Historic_Daily", "Well_Demand_Monthly", "Well_Demand_Daily", "", "Plan_Data",
       "Plan_Wells", "Plan_Return", "", "StreamEstimate_Station", "StreamEstimate_Coefficients",
       "Stream_Base_Monthly", "Stream_Base_Daily", "", "River_Network", "Network", "",
       "Operational_Right", "Downstream_Call", "SanJuanRecovery", "RioGrande_Spill_Monthly", "",
       "GeographicInformation"
    >>

\* Time series interval of every component type.
component_ts_data_intervals ==
    <<
       "UNKNOWN", "UNKNOWN", "UNKNOWN", "UNKNOWN", "UNKNOWN", "UNKNOWN", "UNKNOWN", "YEAR",
       "MONTH", "DAY", "UNKNOWN", "UNKNOWN", "MONTH", "DAY", "MONTH", "DAY", "UNKNOWN", "UNKNOWN",
       "UNKNOWN", "UNKNOWN", "UNKNOWN", "UNKNOWN", "UNKNOWN", "MONTH", "DAY", "MONTH", "MONTH",
       "MONTH", "DAY", "UNKNOWN", "MONTH", "YEAR", "UNKNOWN", "MONTH", "YEAR", "UNKNOWN",
       "UNKNOWN", "UNKNOWN", "MONTH", "DAY", "MONTH", "DAY", "UNKNOWN", "UNKNOWN", "UNKNOWN",
       "UNKNOWN", "MONTH", "MONTH", "DAY", "UNKNOWN", "UNKNOWN", "UNKNOWN", "MONTH", "DAY",
       "MONTH", "DAY", "UNKNOWN", "UNKNOWN", "UNKNOWN", "UNKNOWN", "UNKNOWN", "UNKNOWN", "UNKNOWN",
       "MONTH", "DAY", "UNKNOWN", "UNKNOWN", "UNKNOWN", "UNKNOWN", "UNKNOWN", "DAY", "YEAR",
       "MONTH", "UNKNOWN", "UNKNOWN"
    >>

\* The group components.
component_groups ==
    { "CONTROL_GROUP", "CONSUMPTIVE_USE_GROUP", "STREAMGAGE_GROUP", "DELAY_TABLE_MONTHLY_GROUP",
      "DELAY_TABLE_DAILY_GROUP", "DIVERSION_GROUP", "PRECIPITATION_GROUP", "EVAPORATION_GROUP",
      "RESERVOIR_GROUP", "INSTREAM_GROUP", "WELL_GROUP", "PLAN_GROUP", "STREAMESTIMATE_GROUP",
      "RIVER_NETWORK_GROUP", "OPERATION_GROUP", "GEOVIEW_GROUP" }

\* The group every component type is assigned to.
component_group_assignments ==
    <<
       "CONTROL_GROUP", "CONTROL_GROUP", "CONTROL_GROUP", "CONTROL_GROUP", "CONTROL_GROUP",
       "CONSUMPTIVE_USE_GROUP", "CONSUMPTIVE_USE_GROUP", "CONSUMPTIVE_USE_GROUP",
       "CONSUMPTIVE_USE_GROUP", "CONSUMPTIVE_USE_GROUP", "STREAMGAGE_GROUP", "STREAMGAGE_GROUP",
       "STREAMGAGE_GROUP", "STREAMGAGE_GROUP", "STREAMGAGE_GROUP", "STREAMGAGE_GROUP",
       "DELAY_TABLE_MONTHLY_GROUP", "DELAY_TABLE_MONTHLY_GROUP", "DELAY_TABLE_DAILY_GROUP",
       "DELAY_TABLE_DAILY_GROUP", "DIVERSION_GROUP", "DIVERSION_GROUP", "DIVERSION_GROUP",
       "DIVERSION_GROUP", "DIVERSION_GROUP", "DIVERSION_GROUP", "DIVERSION_GROUP",
       "DIVERSION_GROUP", "DIVERSION_GROUP", "PRECIPITATION_GROUP", "PRECIPITATION_GROUP",
       "PRECIPITATION_GROUP", "EVAPORATION_GROUP", "EVAPORATION_GROUP", "EVAPORATION_GROUP",
       "RESERVOIR_GROUP", "RESERVOIR_GROUP", "RESERVOIR_GROUP", "RESERVOIR_GROUP",
       "RESERVOIR_GROUP", "RESERVOIR_GROUP", "RESERVOIR_GROUP", "RESERVOIR_GROUP",
       "INSTREAM_GROUP", "INSTREAM_GROUP", "INSTREAM_GROUP", "INSTREAM_GROUP", "INSTREAM_GROUP",
       "INSTREAM_GROUP", "WELL_GROUP", "WELL_GROUP", "WELL_GROUP", "WELL_GROUP", "WELL_GROUP",
       "WELL_GROUP", "WELL_GROUP", "PLAN_GROUP", "PLAN_GROUP", "PLAN_GROUP", "PLAN_GROUP",
       "STREAMESTIMATE_GROUP", "STREAMESTIMATE_GROUP", "STREAMESTIMATE_GROUP",
       "STREAMESTIMATE_GROUP", "STREAMESTIMATE_GROUP", "RIVER_NETWORK_GROUP",
       "RIVER_NETWORK_GROUP", "RIVER_NETWORK_GROUP", "OPERATION_GROUP", "OPERATION_GROUP",
       "OPERATION_GROUP", "OPERATION_GROUP", "OPERATION_GROUP", "GEOVIEW_GROUP", "GEOVIEW_GROUP"
    >>

Components == { ComponentTypes[i] : i \in DOMAIN ComponentTypes }

\* Position of a component type in the registry tables.
TypeIndex(c) == CHOOSE i \in DOMAIN ComponentTypes : ComponentTypes[i] = c

\* The keys the registry knows, the empty key of the groups included.
RegistryKeys == { statemod_file_properties[i] : i \in DOMAIN statemod_file_properties }

\* Components whose registered time series interval is the day.
DailyIntervalComponents == { c \in Components : component_ts_data_intervals[TypeIndex(c)] = "DAY" }

(***************************************************************************)
(* Response file and data files.  A file name is modelled by a record that *)
(* says what is found on disk under that name.                             *)
(***************************************************************************)
\* A response property value: a data file that does not exist, is empty, has a
\* malformed header (or first record), or is well formed with n series.
Files ==
    [kind : {"missing", "empty", "malformed"}, n : {0}] \cup [kind : {"good"}, n : 1..MaxSeries]

\* None, as returned by PropList.get_value for an absent key.
NoValue == [kind |-> "None", n |-> 0]

\* The data file name of a freshly constructed component (empty string).
NoFileName == [kind |-> "", n |-> 0]

\* The path of the response file itself.
ResponsePath == [kind |-> "response", n |-> 0]

\* response_props.get_value(key): the value of the property or None.
get_value(p, key) ==
    IF \E i \in DOMAIN p : p[i].key = key
    THEN p[CHOOSE i \in DOMAIN p : p[i].key = key /\ \A j \in 1..(i - 1) : p[j].key # key].value
    ELSE NoValue

\* A free-format response file has at least one line holding "=".
is_free_format_response_file(p) == Len(p) > 0

\* os.path.getsize(path) > 0: raises for a missing file.
SizeTest(fn) ==
    CASE fn.kind = "missing" -> "raise"
      [] fn.kind = "empty" -> "false"
      [] OTHER -> "true"

(***************************************************************************)
(* Object references.  A component payload is the component's own empty    *)
(* list made by initialize, the data set itself, or a list on the heap.    *)
(***************************************************************************)
InitRef(c) == [k |-> "initial", c |-> c, i |-> 0]
SelfRef == [k |-> "dataset", c |-> "", i |-> 0]
ListRef(i) == [k |-> "list", c |-> "", i |-> i]
NoneRef == [k |-> "None", c |-> "", i |-> 0]
Unbound == [k |-> "unbound", c |-> "", i |-> 0]

\* The dataset switches checked by has_sanjuan_data and has_well_data.
has_sanjuan_data(is_active, sw_isjrip) ==
    IF is_active
    THEN (IF sw_isjrip = 1 THEN "true" ELSE "false")
    ELSE "raise"        \* StateMod_Util.is_missing does not exist: AttributeError

has_well_data(is_active, sw_iwell) ==
    IF is_active
    THEN (IF sw_iwell = 1 THEN "true" ELSE "false")
    ELSE "raise"        \* StateMod_Util.is_missing does not exist: AttributeError

(***************************************************************************)
(* StateMod_DataSet.check_component_visibility.  sw is the record of the   *)
(* control switches; the result is the new visibility of every component   *)
(* and whether the method ended by raising.                                *)
(***************************************************************************)
\* Variant: the daily block forgets the daily demands.
DailyBlockWithoutDemand ==
    { "STREAMGAGE_NATURAL_FLOW_TS_DAILY", "INSTREAM_DEMAND_TS_DAILY",
      "WELL_DEMAND_TS_DAILY", "RESERVOIR_TARGET_TS_DAILY", "DELAY_TABLE_DAILY_GROUP",
      "DELAY_TABLES_DAILY", "CONSUMPTIVE_WATER_REQUIREMENT_TS_DAILY",
      "STREAMGAGE_HISTORICAL_TS_DAILY", "DIVERSION_TS_DAILY", "WELL_PUMPING_TS_DAILY",
      "RESERVOIR_CONTENT_TS_DAILY" }

\* The components set from the daily switch.
DailyBlock ==
    { "STREAMGAGE_NATURAL_FLOW_TS_DAILY", "DEMAND_TS_DAILY", "INSTREAM_DEMAND_TS_DAILY",
      "WELL_DEMAND_TS_DAILY", "RESERVOIR_TARGET_TS_DAILY", "DELAY_TABLE_DAILY_GROUP",
      "DELAY_TABLES_DAILY", "CONSUMPTIVE_WATER_REQUIREMENT_TS_DAILY",
      "STREAMGAGE_HISTORICAL_TS_DAILY", "DIVERSION_TS_DAILY", "WELL_PUMPING_TS_DAILY",
      "RESERVOIR_CONTENT_TS_DAILY" }

StreamEstimateBlock ==
    { "STREAMESTIMATE_NATURAL_FLOW_TS_MONTHLY", "STREAMESTIMATE_NATURAL_FLOW_TS_DAILY" }

WellBlock ==
    { "WELL_GROUP", "WELL_STATIONS", "WELL_RIGHTS", "WELL_DEMAND_TS_MONTHLY",
      "WELL_PUMPING_TS_MONTHLY" }

WellDailyBlock == { "WELL_DEMAND_TS_DAILY", "WELL_PUMPING_TS_DAILY" }

\* set_visible(b) on every component of the set cs.
SetVisibleAll(vis, cs, b) == [c \in Components |-> IF c \in cs THEN b ELSE vis[c]]

check_component_visibility(vis, sw) ==
    LET visibility1 == (sw.iday # 0)
        vis1 == SetVisibleAll(vis, DailyBlock, visibility1)
        vis2 == SetVisibleAll(vis1, StreamEstimateBlock, FALSE)
        hw == has_well_data(FALSE, sw.iwell)
        \* "visiblity = True" assigns a different name: visibility keeps its value
        visibility3 == IF hw = "true" THEN visibility1 ELSE FALSE
        vis3a == SetVisibleAll(vis2, WellBlock, visibility3)
        vis3 == IF sw.iday # 0 THEN SetVisibleAll(vis3a, WellDailyBlock, visibility3) ELSE vis3a
        visibility4 == (sw.ireach = 2 \/ sw.ireach = 3)
        vis4 == SetVisibleAll(vis3, {"INSTREAM_DEMAND_TS_MONTHLY"}, visibility4)
        \* the same slip again: visibility keeps the instream value when isjrip is nonzero
        visibility5 == IF sw.isjrip # 0 THEN visibility4 ELSE FALSE
        vis5 == SetVisibleAll(vis4, {"SANJUAN_RIP"}, visibility5)
        visibility6 == (sw.itsfile # 0)
        vis6 == SetVisibleAll(vis5, {"IRRIGATION_PRACTICE_TS_YEARLY"}, visibility6)
        visibility7 == (sw.ieffmax # 0)
        vis7a == SetVisibleAll(vis6, {"CONSUMPTIVE_WATER_REQUIREMENT_TS_MONTHLY"}, visibility7)
        vis7 == IF sw.iday # 0
                THEN SetVisibleAll(vis7a, {"CONSUMPTIVE_WATER_REQUIREMENT_TS_DAILY"}, visibility7)
                ELSE vis7a
        visibility8 == (sw.soild # 0)
        vis8 == SetVisibleAll(vis7, {"STATECU_STRUCTURE"}, visibility8)
        vis9 == SetVisibleAll(vis8, {"NETWORK"}, TRUE)
    IN  IF hw = "raise"
        THEN [visible |-> vis2, raised |-> TRUE]
        ELSE [visible |-> vis9, raised |-> FALSE]

(***************************************************************************)
(* Readers.                                                                *)
(***************************************************************************)
\* StateMod_TS.read_time_series_list2: the general handler logs and returns
\* None for a malformed header; nothing is raised to the caller.
read_time_series_list2(fn) ==
    IF fn.kind = "good"
    THEN [raised |-> FALSE, isNone |-> FALSE, n |-> fn.n]
    ELSE [raised |-> FALSE, isNone |-> TRUE, n |-> 0]

\* StateMod_TS.read_time_series_list: its own handler formats the message
\* with "{]" and so raises ValueError whenever it is entered.
read_time_series_list(fn) ==
    LET tslist == read_time_series_list2(fn)
    IN  IF tslist.raised
        THEN [raised |-> TRUE, isNone |-> TRUE, n |-> 0]
        ELSE tslist

\* Whether the class offers the static read_statemod_file the orchestrator calls.
HasReadStatemodFile(cls) == cls = "StateMod_Diversion"

\* StateMod_Diversion.read_statemod_file: one station per record; an error in
\* a record is logged and the stations read so far are returned.
Diversion_read_statemod_file(fn) == IF fn.kind = "good" THEN fn.n ELSE 0

\* A list object: who made it (role index), from which file the reader built
\* it (NoValue for a list the orchestrator made itself), its length, the data
\* type of each time series and the rights attached to each station.
NewList(by, src, n, tags) ==
    [by |-> by, src |-> src, n |-> n, tags |-> tags, rights |-> [j \in 1..n |-> {}]]

\* v[i].set_data_type(lookup_time_series_data_type(tag) [+ "Min" | "Max"]).
TsTags(tag, n, minmax) ==
    [j \in 1..n |-> <<tag, IF minmax THEN (IF (j - 1) % 2 = 0 THEN "Min" ELSE "Max") ELSE "">>]

\* StateMod_Diversion.connect_all_rights(diversions, rights): a station that
\* is not None is skipped, so no station receives rights.  Right j names
\* station j in its cgoto field.
connect_all_rights(h, diversions, rights) ==
    IF diversions.k # "list" \/ rights.k # "list"
    THEN h
    ELSE [h EXCEPT ![diversions.i].rights =
            [j \in 1..h[diversions.i].n |->
                IF j <= h[diversions.i].n    \* "if div is not None: continue"
                THEN @[j]
                ELSE @[j] \cup {q \in 1..h[rights.i].n : q = j}]]

\* set_numpre / set_numeva: a changed count marks the control component dirty.
set_num(s, which, size) ==
    CASE which = "pre" /\ size # s.numpre ->
            [s EXCEPT !.numpre = size, !.dirty["CONTROL"] = TRUE]
      [] which = "eva" /\ size # s.numeva ->
            [s EXCEPT !.numeva = size, !.dirty["CONTROL"] = TRUE]
      [] OTHER -> s


(***************************************************************************)
(* The blocks of read_statemod_file in the order they are written: the key *)
(* looked up, the component fetched, the guard of the read, the kind of    *)
(* body, what finally does besides clearing the dirty flag ("self": the    *)
(* payload becomes the data set; "comp2": comp2 is cleared too), the type  *)
(* whose data type tags the series, the station count set, the second      *)
(* component and the reader class.                                         *)
(***************************************************************************)
Roles ==
    <<
       [key |-> "Control", comp |-> "CONTROL",
        guard |-> "data", body |-> "announce", fin |-> "self", tag |-> "",
        num |-> "", comp2 |-> "", reader |-> ""],
       [key |-> "River_Network", comp |-> "RIVER_NETWORK",
        guard |-> "data", body |-> "entity", fin |-> "dirty", tag |-> "",
        num |-> "", comp2 |-> "", reader |-> "StateMod_RiverNetworkNode"],
       [key |-> "Reservoir_Station", comp |-> "RESERVOIR_STATIONS",
        guard |-> "none", body |-> "name", fin |-> "dirty", tag |-> "",
        num |-> "", comp2 |-> "", reader |-> ""],
       [key |-> "Diversion_Station", comp |-> "DIVERSION_STATIONS",
        guard |-> "data", body |-> "entity", fin |-> "dirty", tag |-> "",
        num |-> "", comp2 |-> "", reader |-> "StateMod_Diversion"],
       [key |-> "StreamGage_Station", comp |-> "STREAMGAGE_STATIONS",
        guard |-> "data", body |-> "entity", fin |-> "dirty", tag |-> "",
        num |-> "", comp2 |-> "", reader |-> "StateMod_StreamGage"],
       [key |-> "StreamEstimate_Station", comp |-> "STREAMGAGE_STATIONS",
        guard |-> "none", body |-> "name", fin |-> "dirty", tag |-> "",
        num |-> "", comp2 |-> "", reader |-> ""],
       [key |-> "Instreamflow_Station", comp |-> "INSTREAM_STATIONS",
        guard |-> "none", body |-> "name", fin |-> "self", tag |-> "",
        num |-> "", comp2 |-> "", reader |-> ""],
       [key |-> "Well_Station", comp |-> "WELL_STATIONS",
        guard |-> "none", body |-> "name", fin |-> "dirty", tag |-> "",
        num |-> "", comp2 |-> "", reader |-> ""],
       [key |-> "Plan_Data", comp |-> "PLANS",
        guard |-> "none", body |-> "name", fin |-> "dirty", tag |-> "",
        num |-> "", comp2 |-> "", reader |-> ""],
       [key |-> "Plan_Wells", comp |-> "PLAN_WELL_AUGMENTATION",
        guard |-> "none", body |-> "name", fin |-> "dirty", tag |-> "",
        num |-> "", comp2 |-> "", reader |-> ""],
       [key |-> "Plan_Return", comp |-> "PLAN_RETURN",
        guard |-> "none", body |-> "name", fin |-> "dirty", tag |-> "",
        num |-> "", comp2 |-> "", reader |-> ""],
       [key |-> "Instreamflow_Right", comp |-> "INSTREAM_RIGHTS",
        guard |-> "none", body |-> "name", fin |-> "dirty", tag |-> "",
        num |-> "", comp2 |-> "", reader |-> ""],
       [key |-> "Reservoir_Right", comp |-> "RESERVOIR_RIGHTS",
        guard |-> "none", body |-> "name", fin |-> "dirty", tag |-> "",
        num |-> "", comp2 |-> "", reader |-> ""],
       [key |-> "Diversion_Right", comp |-> "DIVERSION_RIGHTS",
        guard |-> "data", body |-> "rights", fin |-> "dirty", tag |-> "",
        num |-> "", comp2 |-> "", reader |-> "StateMod_DiversionRight"],
       [key |-> "Operational_Right", comp |-> "OPERATION_RIGHTS",
        guard |-> "none", body |-> "name", fin |-> "dirty", tag |-> "",
        num |-> "", comp2 |-> "", reader |-> ""],
       [key |-> "Well_Right", comp |-> "WELL_RIGHTS",
        guard |-> "none", body |-> "name", fin |-> "dirty", tag |-> "",
        num |-> "", comp2 |-> "", reader |-> ""],
       [key |-> "Precipitation_Monthly", comp |-> "PRECIPITATION_TS_MONTHLY",
        guard |-> "typeerror", body |-> "ts", fin |-> "dirty", tag |-> "PRECIPITATION_TS_MONTHLY",
        num |-> "pre", comp2 |-> "", reader |-> ""],
       [key |-> "Precipitation_Annual", comp |-> "PRECIPITATION_TS_YEARLY",
        guard |-> "data", body |-> "ts", fin |-> "dirty", tag |-> "PRECIPITATION_TS_YEARLY",
        num |-> "pre", comp2 |-> "", reader |-> ""],
       [key |-> "Evaporation_Monthly", comp |-> "EVAPORATION_TS_MONTHLY",
        guard |-> "data", body |-> "ts", fin |-> "dirty", tag |-> "EVAPORATION_TS_MONTHLY",
        num |-> "eva", comp2 |-> "", reader |-> ""],
       [key |-> "Evaporation_Annual", comp |-> "EVAPORATION_TS_YEARLY",
        guard |-> "data", body |-> "ts", fin |-> "dirty", tag |-> "EVAPORATION_TS_YEARLY",
        num |-> "eva", comp2 |-> "", reader |-> ""],
       [key |-> "Stream_Base_Monthly", comp |-> "STREAMESTIMATE_NATURAL_FLOW_TS_MONTHLY",
        guard |-> "data", body |-> "base", fin |-> "comp2", tag |-> "STREAMGAGE_NATURAL_FLOW_TS_MONTHLY",
        num |-> "", comp2 |-> "STREAMESTIMATE_NATURAL_FLOW_TS_MONTHLY", reader |-> ""],
       [key |-> "Diversion_Demand_Monthly", comp |-> "DEMAND_TS_MONTHLY",
        guard |-> "ts", body |-> "ts", fin |-> "self", tag |-> "DEMAND_TS_MONTHLY",
        num |-> "", comp2 |-> "", reader |-> ""],
       [key |-> "Diversion_DemandOverride_Monthly", comp |-> "DEMAND_TS_OVERRIDE_MONTHLY",
        guard |-> "ts", body |-> "clobber", fin |-> "dirty", tag |-> "DEMAND_TS_OVERRIDE_MONTHLY",
        num |-> "", comp2 |-> "", reader |-> ""],
       [key |-> "Diversion_Demand_AverageMonthly", comp |-> "DEMAND_TS_AVERAGE_MONTHLY",
        guard |-> "ts", body |-> "clobber", fin |-> "dirty", tag |-> "DEMAND_TS_AVERAGE_MONTHLY",
        num |-> "", comp2 |-> "", reader |-> ""],
       [key |-> "Instreamflow_Demand_Monthly", comp |-> "INSTREAM_DEMAND_TS_MONTHLY",
        guard |-> "data", body |-> "ts", fin |-> "dirty", tag |-> "INSTREAM_DEMAND_TS_MONTHLY",
        num |-> "", comp2 |-> "", reader |-> ""],
       [key |-> "Instreamflow_Demand_AverageMonthly", comp |-> "INSTREAM_DEMAND_TS_AVERAGE_MONTHLY",
        guard |-> "data", body |-> "clobber", fin |-> "dirty", tag |-> "INSTREAM_DEMAND_TS_AVERAGE_MONTHLY",
        num |-> "", comp2 |-> "", reader |-> ""],
       [key |-> "Well_Demand_Monthly", comp |-> "WELL_DEMAND_TS_MONTHLY",
        guard |-> "ts", body |-> "clobber", fin |-> "dirty", tag |-> "WELL_DEMAND_TS_MONTHLY",
        num |-> "", comp2 |-> "", reader |-> ""],
       [key |-> "DelayTable_Monthly", comp |-> "DELAY_TABLES_MONTHLY",
        guard |-> "none", body |-> "name", fin |-> "dirty", tag |-> "",
        num |-> "", comp2 |-> "", reader |-> ""],
       [key |-> "Reservoir_Target_Monthly", comp |-> "RESERVOIR_TARGET_TS_MONTHLY",
        guard |-> "ts", body |-> "stale", fin |-> "dirty", tag |-> "RESERVOIR_TARGET_TS_MONTHLY",
        num |-> "", comp2 |-> "", reader |-> ""],
       [key |-> "Reservoir_Return", comp |-> "RESERVOIR_RETURN",
        guard |-> "notsanjuan", body |-> "announce", fin |-> "dirty", tag |-> "",
        num |-> "", comp2 |-> "", reader |-> ""],
       [key |-> "SanJuanRecovery", comp |-> "SANJUAN_RIP",
        guard |-> "sanjuan", body |-> "announce", fin |-> "dirty", tag |-> "",
        num |-> "", comp2 |-> "", reader |-> ""],
       [key |-> "RioGrande_Spill_Monthly", comp |-> "RIO_GRANDE_SPILL",
        guard |-> "sanjuan", body |-> "announce", fin |-> "dirty", tag |-> "",
        num |-> "", comp2 |-> "", reader |-> ""],
       [key |-> "IrrigationPractice_Yearly", comp |-> "IRRIGATION_PRACTICE_TS_YEARLY",
        guard |-> "none", body |-> "name", fin |-> "dirty", tag |-> "",
        num |-> "", comp2 |-> "", reader |-> ""],
       [key |-> "ConsumptiveWaterRequirement_Monthly", comp |-> "CONSUMPTIVE_WATER_REQUIREMENT_TS_MONTHLY",
        guard |-> "ts", body |-> "ts", fin |-> "dirty", tag |-> "CONSUMPTIVE_WATER_REQUIREMENT_TS_MONTHLY",
        num |-> "", comp2 |-> "", reader |-> ""],
       [key |-> "StateCU_", comp |-> "RESERVOIR_RETURN",
        guard |-> "none", body |-> "name", fin |-> "dirty", tag |-> "",
        num |-> "", comp2 |-> "", reader |-> ""],
       [key |-> "SoilMoisture", comp |-> "",
        guard |-> "file", body |-> "soil", fin |-> "none", tag |-> "",
        num |-> "", comp2 |-> "", reader |-> ""],
       [key |-> "Reservoir_Historic_Monthly", comp |-> "RESERVOIR_CONTENT_TS_MONTHLY",
        guard |-> "ts", body |-> "ts", fin |-> "dirty", tag |-> "RESERVOIR_CONTENT_TS_MONTHLY",
        num |-> "", comp2 |-> "", reader |-> ""],
       [key |-> "StreamEstimate_Coefficients", comp |-> "STREAMESTIMATE_COEFFICIENTS",
        guard |-> "none", body |-> "name", fin |-> "dirty", tag |-> "",
        num |-> "", comp2 |-> "", reader |-> ""],
       [key |-> "StreamGage_Historic_Monthly", comp |-> "STREAMGAGE_HISTORICAL_TS_MONTHLY",
        guard |-> "data", body |-> "ts", fin |-> "dirty", tag |-> "STREAMGAGE_HISTORICAL_TS_MONTHLY",
        num |-> "", comp2 |-> "", reader |-> ""],
       [key |-> "Diversion_Historic_Monthly", comp |-> "DIVERSION_TS_MONTHLY",
        guard |-> "ts", body |-> "lenfirst", fin |-> "dirty", tag |-> "DIVERSION_TS_MONTHLY",
        num |-> "", comp2 |-> "", reader |-> ""],
       [key |-> "Well_Historic_Monthly", comp |-> "WELL_PUMPING_TS_MONTHLY",
        guard |-> "ts", body |-> "ts", fin |-> "dirty", tag |-> "WELL_PUMPING_TS_MONTHLY",
        num |-> "", comp2 |-> "", reader |-> ""],
       [key |-> "GeographicInformation", comp |-> "GEOVIEW",
        guard |-> "file", body |-> "announce", fin |-> "dirty", tag |-> "",
        num |-> "", comp2 |-> "", reader |-> ""],
       [key |-> "OutputRequest", comp |-> "OUTPUT_REQUEST",
        guard |-> "none", body |-> "name", fin |-> "dirty", tag |-> "",
        num |-> "", comp2 |-> "", reader |-> ""],
       [key |-> "Reach_Data", comp |-> "REACH_DATA",
        guard |-> "data", body |-> "announce", fin |-> "dirty", tag |-> "",
        num |-> "", comp2 |-> "", reader |-> ""],
       [key |-> "Stream_Base_Daily", comp |-> "STREAMGAGE_NATURAL_FLOW_TS_DAILY",
        guard |-> "data", body |-> "base", fin |-> "comp2", tag |-> "STREAMGAGE_NATURAL_FLOW_TS_MONTHLY",
        num |-> "", comp2 |-> "STREAMESTIMATE_NATURAL_FLOW_TS_DAILY", reader |-> ""],
       [key |-> "Diversion_Demand_Daily", comp |-> "DEMAND_TS_DAILY",
        guard |-> "ts", body |-> "ts", fin |-> "dirty", tag |-> "DEMAND_TS_DAILY",
        num |-> "", comp2 |-> "", reader |-> ""],
       [key |-> "Instreamflow_Demand_Daily", comp |-> "INSTREAM_DEMAND_TS_DAILY",
        guard |-> "ts", body |-> "ts", fin |-> "dirty", tag |-> "INSTREAM_DEMAND_TS_DAILY",
        num |-> "", comp2 |-> "", reader |-> ""],
       [key |-> "Well_Demand_Daily", comp |-> "WELL_DEMAND_TS_DAILY",
        guard |-> "ts", body |-> "ts", fin |-> "dirty", tag |-> "WELL_DEMAND_TS_DAILY",
        num |-> "", comp2 |-> "", reader |-> ""],
       [key |-> "Reservoir_Target_Daily", comp |-> "RESERVOIR_TARGET_TS_DAILY",
        guard |-> "ts", body |-> "minmax", fin |-> "dirty", tag |-> "RESERVOIR_TARGET_TS_DAILY",
        num |-> "", comp2 |-> "", reader |-> ""],
       [key |-> "DelayTable_Daily", comp |-> "DELAY_TABLES_DAILY",
        guard |-> "none", body |-> "name", fin |-> "dirty", tag |-> "",
        num |-> "", comp2 |-> "", reader |-> ""],
       [key |-> "ConsumptiveWaterRequirement_Daily", comp |-> "CONSUMPTIVE_WATER_REQUIREMENT_TS_DAILY",
        guard |-> "ts", body |-> "ts", fin |-> "dirty", tag |-> "CONSUMPTIVE_WATER_REQUIREMENT_TS_DAILY",
        num |-> "", comp2 |-> "", reader |-> ""],
       [key |-> "StreamGage_Historic_Monthly", comp |-> "STREAMGAGE_HISTORICAL_TS_DAILY",
        guard |-> "ts", body |-> "ts", fin |-> "dirty", tag |-> "STREAMGAGE_HISTORICAL_TS_DAILY",
        num |-> "", comp2 |-> "", reader |-> ""],
       [key |-> "Diversion_Historic_Monthly", comp |-> "DIVERSION_TS_DAILY",
        guard |-> "ts", body |-> "ts", fin |-> "dirty", tag |-> "DIVERSION_TS_DAILY",
        num |-> "", comp2 |-> "", reader |-> ""],
       [key |-> "Well_Historic_Monthly", comp |-> "WELL_PUMPING_TS_DAILY",
        guard |-> "ts", body |-> "ts", fin |-> "dirty", tag |-> "WELL_PUMPING_TS_DAILY",
        num |-> "", comp2 |-> "", reader |-> ""],
       [key |-> "Reservoir_Historic_Monthly", comp |-> "RESERVOIR_CONTENT_TS_DAILY",
        guard |-> "ts", body |-> "noset", fin |-> "dirty", tag |-> "RESERVOIR_CONTENT_TS_DAILY",
        num |-> "", comp2 |-> "", reader |-> ""],
       [key |-> "Downstream_Call", comp |-> "DOWNSTREAM_CALL_TS_DAILY",
        guard |-> "none", body |-> "name", fin |-> "dirty", tag |-> "",
        num |-> "", comp2 |-> "", reader |-> ""],
       [key |-> "", comp |-> "",
        guard |-> "none", body |-> "unhandled", fin |-> "none", tag |-> "",
        num |-> "", comp2 |-> "", reader |-> ""],
       [key |-> "Network", comp |-> "NETWORK",
        guard |-> "none", body |-> "name", fin |-> "dirty", tag |-> "",
        num |-> "", comp2 |-> "", reader |-> ""]
    >>

(***************************************************************************)
(* One try / except / finally block of read_statemod_file.  s is the       *)
(* record of the data set fields and orchestrator locals the block may     *)
(* change, r the role, i its position, p the response properties.          *)
(***************************************************************************)
\* The test that guards the read of a role.
Guard(g, fn, rd, rts, sj) ==
    CASE g = "none" -> "false"
      [] g = "data" -> IF rd /\ fn # NoValue THEN SizeTest(fn) ELSE "false"
      [] g = "ts" -> IF rd /\ rts /\ fn # NoValue THEN SizeTest(fn) ELSE "false"
      [] g = "file" -> IF fn # NoValue THEN SizeTest(fn) ELSE "false"
         \* os.path.getsize(path > 0): str > int is a TypeError
      [] g = "typeerror" -> IF rd /\ fn # NoValue THEN "raise" ELSE "false"
      [] g = "notsanjuan" ->
            IF rd /\ fn # NoValue
            THEN (CASE has_sanjuan_data(FALSE, sj) = "raise" -> "raise"
                    [] has_sanjuan_data(FALSE, sj) = "true" -> "false"
                    [] OTHER -> SizeTest(fn))
            ELSE "false"
      [] g = "sanjuan" ->
            IF rd /\ fn # NoValue
            THEN (CASE has_sanjuan_data(FALSE, sj) = "raise" -> "raise"
                    [] has_sanjuan_data(FALSE, sj) = "false" -> "false"
                    [] OTHER -> SizeTest(fn))
            ELSE "false"

\* The time series bodies after the reader has returned the list rd.
StoreSeries(r, s, i, fn, rd, minmax, store) ==
    LET obj == IF rd.isNone
               THEN NewList(i, NoValue, 0, <<>>)
               ELSE NewList(i, fn, rd.n, TsTags(r.tag, rd.n, minmax))
        ref == ListRef(Len(s.heap) + 1)
        s1 == [s EXCEPT !.heap = Append(@, obj), !.v = ref]
        s2 == set_num(s1, r.num, obj.n)
    IN  IF store THEN [s2 EXCEPT !.data[r.comp] = ref] ELSE s2

Body(r, s, i, fn) ==
    CASE r.body \in {"ts", "minmax", "noset", "base", "lenfirst", "clobber"} ->
            LET rd == read_time_series_list(fn)
            IN  IF rd.raised THEN [s |-> s, raised |-> TRUE]
                ELSE IF r.body = "lenfirst" /\ rd.isNone
                     THEN [s |-> [s EXCEPT !.v = NoneRef], raised |-> TRUE]
                ELSE IF r.body = "clobber"
                     THEN IF rd.isNone
                          THEN [s |-> [s EXCEPT !.v = NoneRef], raised |-> TRUE]
                          ELSE [s |-> StoreSeries(r, s, i, fn,
                                        [raised |-> FALSE, isNone |-> TRUE, n |-> 0],
                                        FALSE, TRUE),
                                raised |-> FALSE]
                ELSE LET s1 == StoreSeries(r, s, i, fn, rd, r.body = "minmax", r.body # "noset")
                     IN  IF r.body = "base"
                         THEN [s |-> [s1 EXCEPT !.comp2 = r.comp2,
                                                !.fileName[r.comp2] = s1.fileName[r.comp],
                                                !.data[r.comp2] = s1.v],
                               raised |-> FALSE]
                         ELSE [s |-> s1, raised |-> FALSE]
      [] r.body = "stale" ->
            CASE s.v = Unbound -> [s |-> s, raised |-> TRUE]
              [] s.v = NoneRef ->
                    [s |-> StoreSeries(r, s, i, fn,
                                [raised |-> FALSE, isNone |-> TRUE, n |-> 0], TRUE, TRUE),
                     raised |-> FALSE]
              [] OTHER ->
                    [s |-> [s EXCEPT !.heap[s.v.i].tags = TsTags(r.tag, s.heap[s.v.i].n, TRUE),
                                     !.data[r.comp] = s.v,
                                     !.uses = @ \cup {<<i, s.heap[s.v.i].by>>}],
                     raised |-> FALSE]
      [] r.body = "entity" ->
            IF ~HasReadStatemodFile(r.reader)
            THEN [s |-> s, raised |-> TRUE]
            ELSE [s |-> [s EXCEPT !.heap = Append(@,
                                      NewList(i, fn, Diversion_read_statemod_file(fn), <<>>)),
                                  !.data[r.comp] = ListRef(Len(s.heap) + 1)],
                  raised |-> FALSE]
      [] r.body = "rights" ->
            IF ~HasReadStatemodFile(r.reader)
            THEN [s |-> s, raised |-> TRUE]
            ELSE LET ref == ListRef(Len(s.heap) + 1)
                     h1 == Append(s.heap, NewList(i, fn, fn.n, <<>>))
                     divs == s.data["DIVERSION_STATIONS"]
                 IN  [s |-> [s EXCEPT !.heap = connect_all_rights(h1, divs, ref),
                                      !.data[r.comp] = ref,
                                      !.uses = IF divs.k = "list"
                                               THEN @ \cup {<<i, h1[divs.i].by>>} ELSE @],
                      raised |-> FALSE]
      [] OTHER -> [s |-> s, raised |-> FALSE]

Block(r, s, i, p, rd, rts) ==
    LET s0 == IF r.key = "Stream_Base_Monthly" THEN [s EXCEPT !.comp2 = ""] ELSE s
        fn == get_value(p, r.key)
        s1 == IF fn # NoValue THEN [s0 EXCEPT !.fileName[r.comp] = fn] ELSE s0
        g == Guard(r.guard, fn, rd, rts, s.isjrip)
        b == IF g = "true" THEN Body(r, s1, i, fn) ELSE [s |-> s1, raised |-> (g = "raise")]
        s2 == IF b.raised THEN [b.s EXCEPT !.errorFlag[r.comp] = TRUE] ELSE b.s
        s3 == [s2 EXCEPT !.dirty[r.comp] = FALSE]
    IN  CASE r.fin = "self" -> [s3 EXCEPT !.data[r.comp] = SelfRef]
          [] r.fin = "comp2" /\ s3.comp2 # "" -> [s3 EXCEPT !.dirty[s3.comp2] = FALSE]
          [] OTHER -> s3

NRoles == Len(Roles)

\* Variant: the roles named in the response file are handled first, in the
\* order of the file.
RoleAtFileOrder(i, p) ==
    IF i <= Len(p) /\ \E j \in 1..NRoles : Roles[j].key = p[i].key
    THEN Roles[CHOOSE j \in 1..NRoles :
                  Roles[j].key = p[i].key /\ \A k \in 1..(j - 1) : Roles[k].key # p[i].key]
    ELSE Roles[i]

\* The role handled by the i-th block of read_statemod_file: the blocks are
\* written out one after another, whatever the order of the properties in p.
RoleAt(i, p) == Roles[i]

(***************************************************************************)
(* StateMod_DataSet.initialize: the statements that build the component    *)
(* tree, in order.  "comp" and "subcomp" bind the local of that name to a  *)
(* new component of the type, "add_top" is self.add_component(comp) and    *)
(* "add_sub" is comp.add_component(subcomp).                               *)
(***************************************************************************)
InitializeSteps ==
    <<
       <<"comp", "CONTROL_GROUP">>, <<"add_top", "">>, <<"subcomp", "RESPONSE">>,
       <<"add_sub", "">>, <<"subcomp", "CONTROL">>, <<"add_sub", "">>,
       <<"subcomp", "OUTPUT_REQUEST">>, <<"add_sub", "">>, <<"subcomp", "REACH_DATA">>,
       <<"add_sub", "">>, <<"comp", "CONSUMPTIVE_USE_GROUP">>, <<"add_top", "">>,
       <<"subcomp", "STATECU_STRUCTURE">>, <<"add_sub", "">>,
       <<"subcomp", "IRRIGATION_PRACTICE_TS_YEARLY">>, <<"add_sub", "">>,
       <<"subcomp", "CONSUMPTIVE_WATER_REQUIREMENT_TS_MONTHLY">>, <<"add_sub", "">>,
       <<"subcomp", "CONSUMPTIVE_WATER_REQUIREMENT_TS_DAILY">>, <<"add_sub", "">>,
       <<"comp", "STREAMGAGE_GROUP">>, <<"add_top", "">>, <<"subcomp", "STREAMGAGE_STATIONS">>,
       <<"add_sub", "">>, <<"subcomp", "STREAMGAGE_HISTORICAL_TS_MONTHLY">>, <<"add_sub", "">>,
       <<"subcomp", "STREAMGAGE_HISTORICAL_TS_DAILY">>, <<"add_sub", "">>,
       <<"subcomp", "STREAMGAGE_NATURAL_FLOW_TS_MONTHLY">>, <<"add_sub", "">>,
       <<"subcomp", "STREAMGAGE_NATURAL_FLOW_TS_DAILY">>, <<"add_sub", "">>,
       <<"comp", "DELAY_TABLE_MONTHLY_GROUP">>, <<"add_top", "">>,
       <<"subcomp", "DELAY_TABLES_MONTHLY">>, <<"comp", "DELAY_TABLE_DAILY_GROUP">>,
       <<"add_top", "">>, <<"add_sub", "">>, <<"subcomp", "DELAY_TABLES_DAILY">>,
       <<"add_sub", "">>, <<"comp", "DIVERSION_GROUP">>, <<"add_top", "">>,
       <<"subcomp", "DIVERSION_STATIONS">>, <<"add_sub", "">>, <<"subcomp", "DIVERSION_RIGHTS">>,
       <<"add_sub", "">>, <<"subcomp", "DIVERSION_TS_MONTHLY">>, <<"add_sub", "">>,
       <<"subcomp", "DIVERSION_TS_DAILY">>, <<"add_sub", "">>,
       <<"subcomp", "DEMAND_TS_MONTHLY">>, <<"add_sub", "">>,
       <<"subcomp", "DEMAND_TS_OVERRIDE_MONTHLY">>, <<"add_sub", "">>,
       <<"subcomp", "DEMAND_TS_AVERAGE_MONTHLY">>, <<"add_sub", "">>,
       <<"subcomp", "DEMAND_TS_DAILY">>, <<"add_sub", "">>, <<"comp", "PRECIPITATION_GROUP">>,
       <<"add_top", "">>, <<"subcomp", "PRECIPITATION_TS_MONTHLY">>, <<"add_sub", "">>,
       <<"subcomp", "PRECIPITATION_TS_YEARLY">>, <<"add_sub", "">>,
       <<"comp", "EVAPORATION_GROUP">>, <<"add_top", "">>,
       <<"subcomp", "EVAPORATION_TS_MONTHLY">>, <<"add_sub", "">>,
       <<"subcomp", "EVAPORATION_TS_YEARLY">>, <<"add_sub", "">>, <<"comp", "RESERVOIR_GROUP">>,
       <<"add_top", "">>, <<"subcomp", "RESERVOIR_STATIONS">>, <<"add_sub", "">>,
       <<"subcomp", "RESERVOIR_RIGHTS">>, <<"add_sub", "">>,
       <<"subcomp", "RESERVOIR_CONTENT_TS_MONTHLY">>, <<"add_sub", "">>,
       <<"subcomp", "RESERVOIR_CONTENT_TS_DAILY">>, <<"add_sub", "">>,
       <<"subcomp", "RESERVOIR_TARGET_TS_MONTHLY">>, <<"add_sub", "">>,
       <<"subcomp", "RESERVOIR_TARGET_TS_DAILY">>, <<"add_sub", "">>,
       <<"subcomp", "RESERVOIR_RETURN">>, <<"add_sub", "">>, <<"comp", "INSTREAM_GROUP">>,
       <<"add_top", "">>, <<"subcomp", "INSTREAM_STATIONS">>, <<"add_sub", "">>,
       <<"subcomp", "INSTREAM_RIGHTS">>, <<"add_sub", "">>,
       <<"subcomp", "INSTREAM_DEMAND_TS_MONTHLY">>, <<"add_sub", "">>,
       <<"subcomp", "INSTREAM_DEMAND_TS_AVERAGE_MONTHLY">>, <<"add_sub", "">>,
       <<"subcomp", "INSTREAM_DEMAND_TS_DAILY">>, <<"add_sub", "">>, <<"comp", "WELL_GROUP">>,
       <<"add_top", "">>, <<"subcomp", "WELL_STATIONS">>, <<"add_sub", "">>,
       <<"subcomp", "WELL_RIGHTS">>, <<"add_sub", "">>, <<"subcomp", "WELL_PUMPING_TS_MONTHLY">>,
       <<"add_sub", "">>, <<"subcomp", "WELL_PUMPING_TS_DAILY">>, <<"add_sub", "">>,
       <<"subcomp", "WELL_DEMAND_TS_MONTHLY">>, <<"add_sub", "">>,
       <<"subcomp", "WELL_DEMAND_TS_DAILY">>, <<"add_sub", "">>, <<"comp", "PLAN_GROUP">>,
       <<"add_top", "">>, <<"subcomp", "PLANS">>, <<"add_sub", "">>,
       <<"subcomp", "PLAN_WELL_AUGMENTATION">>, <<"add_sub", "">>, <<"subcomp", "PLAN_RETURN">>,
       <<"add_sub", "">>, <<"comp", "STREAMESTIMATE_GROUP">>, <<"add_top", "">>,
       <<"subcomp", "STREAMESTIMATE_STATIONS">>, <<"add_sub", "">>,
       <<"subcomp", "STREAMESTIMATE_COEFFICIENTS">>, <<"add_sub", "">>,
       <<"subcomp", "STREAMESTIMATE_NATURAL_FLOW_TS_MONTHLY">>, <<"add_sub", "">>,
       <<"subcomp", "STREAMESTIMATE_NATURAL_FLOW_TS_DAILY">>, <<"add_sub", "">>,
       <<"comp", "RIVER_NETWORK_GROUP">>, <<"add_top", "">>, <<"subcomp", "RIVER_NETWORK">>,
       <<"add_sub", "">>, <<"subcomp", "NETWORK">>, <<"add_sub", "">>,
       <<"comp", "OPERATION_GROUP">>, <<"add_top", "">>, <<"subcomp", "OPERATION_RIGHTS">>,
       <<"add_sub", "">>, <<"subcomp", "DOWNSTREAM_CALL_TS_DAILY">>, <<"add_sub", "">>,
       <<"subcomp", "SANJUAN_RIP">>, <<"add_sub", "">>, <<"subcomp", "RIO_GRANDE_SPILL">>,
       <<"add_sub", "">>, <<"comp", "GEOVIEW_GROUP">>, <<"add_top", "">>,
       <<"subcomp", "GEOVIEW">>, <<"add_sub", "">>
    >>

\* The component the local (comp or subcomp) is bound to when statement k runs.
BoundAt(local, k) ==
    LET js == {j \in 1..(k - 1) : InitializeSteps[j][1] = local}
        last == CHOOSE j \in js : \A i \in js : i <= j
    IN  InitializeSteps[last][2]

\* The component tree initialize leaves behind: one node per add_component
\* call, named by the statement that added it; top-level nodes and
\* <<statement, parent, child>> triples.
initialize ==
    [top |-> {<<k, BoundAt("comp", k)>> :
                 k \in {j \in DOMAIN InitializeSteps : InitializeSteps[j][1] = "add_top"}},
     edges |-> {<<k, BoundAt("comp", k), BoundAt("subcomp", k)>> :
                 k \in {j \in DOMAIN InitializeSteps : InitializeSteps[j][1] = "add_sub"}}]

(***************************************************************************)
(* StateMod_TS.  Data values, sums and column limits are held in           *)
(* hundredths: the number 12.5 is 1250.                                    *)
(***************************************************************************)
PRECISION_SPECIAL_OFFSET == 1000

PRECISION_DEFAULT == -2

\* The value of exp_saved before any call of get_precision.
EXP_NOT_SAVED == -999

RECURSIVE Pow10(_)
Pow10(n) == IF n <= 0 THEN 1 ELSE 10 * Pow10(n - 1)

Abs(x) == IF x < 0 THEN -x ELSE x

\* pow(10, float(exp)) - 1.0, for the exponents the widths below give (none
\* is negative).
LargestNumber(exp) == (Pow10(exp) - 1) * 100

\* get_precision with the class attributes passed in and handed back.  The
\* division by the special offset is exact for the multiples of 1000, the only
\* precisions beyond the offset that are given below.
get_precision_stale(req_precision, width, value, saved_exp, saved_largest) ==
    LET rp == IF req_precision > PRECISION_SPECIAL_OFFSET
                  \/ req_precision * (-1) > PRECISION_SPECIAL_OFFSET
              THEN req_precision \div PRECISION_SPECIAL_OFFSET
              ELSE req_precision
        exp == IF value < 0 THEN width + rp - 2 ELSE width + rp - 1
        hit == saved_exp # EXP_NOT_SAVED
        largest_number == IF hit THEN saved_largest ELSE LargestNumber(exp)
    IN  IF rp >= 0
        THEN [ret |-> rp, exp_saved |-> saved_exp, largest_number_saved |-> saved_largest]
        ELSE [ret |-> IF Abs(value) <= largest_number THEN rp * (-1) ELSE 0,
              exp_saved |-> IF hit THEN saved_exp ELSE exp,
              largest_number_saved |-> largest_number]

get_precision(req_precision, width, value, saved_exp, saved_largest) ==
    LET rp == IF req_precision > PRECISION_SPECIAL_OFFSET
                  \/ req_precision * (-1) > PRECISION_SPECIAL_OFFSET
              THEN req_precision \div PRECISION_SPECIAL_OFFSET
              ELSE req_precision
        exp == IF value < 0 THEN width + rp - 2 ELSE width + rp - 1
        hit == exp = saved_exp /\ exp # EXP_NOT_SAVED
        largest_number == IF hit THEN saved_largest ELSE LargestNumber(exp)
    IN  IF rp >= 0
        THEN [ret |-> rp, exp_saved |-> saved_exp, largest_number_saved |-> saved_largest]
        ELSE [ret |-> IF Abs(value) <= largest_number THEN rp * (-1) ELSE 0,
              exp_saved |-> IF hit THEN saved_exp ELSE exp,
              largest_number_saved |-> largest_number]

\* get_precision_with_units: the result, and the class attributes after the
\* call.  Without units the plain function is called; units equal, but for
\* case, to the last ones give the precision saved with them; other units
\* are saved with the precision 2 and the plain function is called with the
\* default precision, as units_precision is never changed.
get_precision_with_units(req_precision, width, value, units, saved) ==
    LET upper(u) == IF u = "acft" THEN "ACFT" ELSE u
        plain(p) == get_precision(p, width, value, saved.exp_saved, saved.largest_number_saved)
        result(r, lu, lup) ==
            [ret |-> r.ret, exp_saved |-> r.exp_saved,
             largest_number_saved |-> r.largest_number_saved,
             last_units |-> lu, last_units_precision |-> lup]
    IN  IF units = ""
        THEN result(plain(req_precision), saved.last_units, saved.last_units_precision)
        ELSE IF upper(units) = upper(saved.last_units)
        THEN [saved EXCEPT !.ret = saved.last_units_precision]
        ELSE result(plain(PRECISION_DEFAULT), units, 2)

(***************************************************************************)
(* get_file_data_interval.  A line of a file is known by what the detector *)
(* looks at: whether it is blank, a comment (first character #) or other   *)
(* text, its length once trimmed, and, for a comment, the word after       *)
(* "Time Step:" if it has one.                                             *)
(***************************************************************************)
\* The return value when the interval cannot be determined (-999).
INTERVAL_UNKNOWN == "-999"

\* The character count above which a data line is taken to be daily.
DAILY_LINE_THRESHOLD == 150

\* The *.xop branch: the first comment line decides; the search for
\* "TIME STEP:" raises ValueError on a comment without it.
RECURSIVE XopInterval(_, _)
XopInterval(lines, i) ==
    IF i > Len(lines) THEN INTERVAL_UNKNOWN
    ELSE IF lines[i].kind # "comment" THEN XopInterval(lines, i + 1)
    ELSE IF lines[i].step = "" THEN INTERVAL_UNKNOWN
    ELSE IF lines[i].step = "MONTHLY" THEN "MONTH"
    ELSE "DAY"

get_file_data_interval_header(f) ==
    IF ~f.exists THEN INTERVAL_UNKNOWN
    ELSE IF f.xop THEN XopInterval(f.lines, 1)
    ELSE LET text == {i \in DOMAIN f.lines : f.lines[i].kind = "text"}
         IN  IF text = {} THEN INTERVAL_UNKNOWN
             ELSE LET i == CHOOSE j \in text : \A k \in text : j <= k
                  IN  IF i + 1 > Len(f.lines) THEN INTERVAL_UNKNOWN
                      ELSE IF f.lines[i].len > DAILY_LINE_THRESHOLD THEN "DAY"
                      ELSE "MONTH"

\* f: [exists, xop, lines].  A file that cannot be opened, or that ends
\* before the line after the header (IndexError), gives INTERVAL_UNKNOWN.
get_file_data_interval(f) ==
    IF ~f.exists THEN INTERVAL_UNKNOWN
    ELSE IF f.xop THEN XopInterval(f.lines, 1)
    ELSE LET text == {i \in DOMAIN f.lines : f.lines[i].kind = "text"}
         IN  IF text = {} THEN INTERVAL_UNKNOWN
             ELSE LET i == CHOOSE j \in text : \A k \in text : j <= k
                  IN  IF i + 1 > Len(f.lines) THEN INTERVAL_UNKNOWN
                      ELSE IF f.lines[i + 1].len > DAILY_LINE_THRESHOLD THEN "DAY"
                      ELSE "MONTH"

(***************************************************************************)
(* Time series and StateMod time series files.  A monthly date is a month  *)
(* number, year * 12 + month - 1.  A time series is a record               *)
(* [id, interval, units, date1, date2, values] whose values are a function *)
(* on date1..date2; a daily series holds one value per month, taken on     *)
(* every day of that month.                                                *)
(***************************************************************************)
MonthDate(y, m) == y * 12 + m - 1

YearOf(d) == d \div 12

MonthOf(d) == (d % 12) + 1

\* The missing data value of a time series, and the default missing_dv of the
\* writer: -999.0.
MISSING == -99900

is_data_missing(value) == value = MISSING

\* TS.get_data_value: the missing value outside the period.
get_data_value(ts, d) == IF d \in DOMAIN ts.values THEN ts.values[d] ELSE MISSING

num_days_in_month(m, y) ==
    CASE m = 2 -> IF (y % 4 = 0 /\ y % 100 # 0) \/ y % 400 = 0 THEN 29 ELSE 28
      [] m \in {4, 6, 9, 11} -> 30
      [] OTHER -> 31

RECURSIVE SumSeq(_)
SumSeq(q) == IF q = <<>> THEN 0 ELSE q[1] + SumSeq(Tail(q))

\* num / den (den > 0) formatted with the given number of decimals (0 to 2)
\* and parsed back, in hundredths: the nearest multiple of the last printed
\* digit, a tie going to the even digit.
FormatRatio(num, den, precision) ==
    LET unit == den * Pow10(2 - precision)
        q == num \div unit
        r == num % unit
        up == 2 * r > unit \/ (2 * r = unit /\ q % 2 = 1)
    IN  (IF up THEN q + 1 ELSE q) * Pow10(2 - precision)

\* StringUtil.format_string of one number with format "%#w.<precision>f",
\* parsed back.
format_string(value, precision) == FormatRatio(value, 1, precision)

\* The result of get_precision; it does not depend on the saved exponent.
Precision(req_precision, width, value) ==
    get_precision(req_precision, width, value, EXP_NOT_SAVED, 0).ret

\* The units for which the last column is a total and not an average.
TotalUnits == {"AF", "ACFT", "AF/M", "IN", "MM"}

get_line_total_all(printed, do_total) ==
    LET sum == SumSeq(printed)
        count == Len(printed)
    IN  IF count = 0 THEN [num |-> MISSING, den |-> 1]
        ELSE IF do_total THEN [num |-> sum, den |-> 1]
        ELSE [num |-> sum, den |-> count]

\* get_line_total with do_sum_to_printed: printed is the sequence of the
\* values of the line as printed; the result is a ratio, [num, den].
get_line_total(printed, do_total) ==
    LET kept == SelectSeq(printed, LAMBDA x : ~is_data_missing(x))
        sum == SumSeq(kept)
        count == Len(kept)
    IN  IF count = 0 THEN [num |-> MISSING, den |-> 1]
        ELSE IF do_total THEN [num |-> sum, den |-> 1]
        ELSE [num |-> sum, den |-> count]

\* The lines of a file.
NoHeader == [m1 |-> 0, y1 |-> 0, m2 |-> 0, y2 |-> 0, units |-> "", yeartype |-> ""]

NoRecord == [year |-> 0, month |-> 0, id |-> "", values |-> <<>>, total |-> 0, decimals |-> 0]

FileComment == [kind |-> "comment", hdr |-> NoHeader, rec |-> NoRecord]

FileHeader(h) == [kind |-> "header", hdr |-> h, rec |-> NoRecord]

FileRecord(r) == [kind |-> "record", hdr |-> NoHeader, rec |-> r]

\* The first month of the output year and the code written in the header.
YearTypeStartMonth(output_year_type) ==
    CASE output_year_type = "WATER" -> 10
      [] output_year_type = "NOV_TO_OCT" -> 11
      [] OTHER -> 1

YearTypeCode(output_year_type) ==
    CASE output_year_type = "WATER" -> "WYR"
      [] output_year_type = "NOV_TO_OCT" -> "IYR"
      [] OTHER -> "CYR"

NoDate == -1

\* TSUtil.get_period_from_ts with MAX_POR.
get_period_from_ts(tslist) ==
    [date1 |-> CHOOSE d \in {tslist[i].date1 : i \in DOMAIN tslist} :
                  \A i \in DOMAIN tslist : d <= tslist[i].date1,
     date2 |-> CHOOSE d \in {tslist[i].date2 : i \in DOMAIN tslist} :
                  \A i \in DOMAIN tslist : d >= tslist[i].date2]

\* One monthly data line: the twelve values from month d on, then the total.
MonthlyLine(ts, d, year, standard_ts, do_total, missing_dv, req_precision) ==
    LET value(k) == get_data_value(ts, d + k - 1)
        printed == [k \in 1..12 |->
                       format_string(IF is_data_missing(value(k)) THEN missing_dv ELSE value(k),
                                     Precision(req_precision, 8, value(k)))]
        annual_sum == SumSeq(SelectSeq([k \in 1..12 |-> value(k)],
                                       LAMBDA x : ~is_data_missing(x)))
        total == get_line_total(printed, do_total)
        precision == Precision(req_precision, 10, annual_sum)
    IN  [line |-> FileRecord([year |-> IF standard_ts THEN year ELSE 0,
                              month |-> 0,
                              id |-> ts.id,
                              values |-> printed,
                              total |-> FormatRatio(total.num, total.den, precision),
                              decimals |-> precision]),
         annual_sum |-> annual_sum]

NoCall == [made |-> FALSE, width |-> 0, value |-> 0]

\* write_time_series_list for a list without None entries and without genesis
\* lines.  The result holds the lines written to out, whether the call raised
\* and the arguments of its last call of get_precision.
write_time_series_list(tslist, date1, date2, output_year_type, missing_dv, req_precision) ==
    LET nseries == Len(tslist)
        req_interval_base == tslist[1].interval
        mixed == \E i \in DOMAIN tslist : tslist[i].interval # req_interval_base
        standard_ts == \A i \in DOMAIN tslist : YearOf(tslist[i].date1) # 0
        output_units == tslist[1].units
        do_total == output_units \in TotalUnits
        comments(n) == [i \in 1..n |-> FileComment]
        por == get_period_from_ts(tslist)
        first == IF date1 = NoDate THEN por.date1 ELSE date1
        last == IF date2 = NoDate THEN por.date2 ELSE date2
        m1 == YearTypeStartMonth(output_year_type)
        m2 == IF m1 = 1 THEN 12 ELSE m1 - 1
        req_date1 == IF standard_ts THEN first - ((MonthOf(first) - m1) % 12)
                     ELSE MonthDate(0, m1)
        req_date2 == IF standard_ts THEN last + ((m2 - MonthOf(last)) % 12)
                     ELSE IF m1 = 1 THEN MonthDate(0, 12) ELSE MonthDate(1, m2)
        year == IF ~standard_ts THEN 0
                ELSE IF m1 = 1 THEN YearOf(req_date1) ELSE YearOf(req_date1) + 1
        header == FileHeader([m1 |-> MonthOf(req_date1),
                              y1 |-> IF standard_ts THEN YearOf(req_date1) ELSE 0,
                              m2 |-> MonthOf(req_date2),
                              y2 |-> IF standard_ts THEN YearOf(req_date2) ELSE 0,
                              units |-> output_units,
                              yeartype |-> YearTypeCode(output_year_type)])
        \* The while loop tests the date of the pass before: one pass more
        \* than the output years.
        passes == IF req_date1 <= req_date2 THEN (req_date2 - req_date1) \div 12 + 2 ELSE 0
        line(n) == MonthlyLine(tslist[((n - 1) % nseries) + 1],
                               req_date1 + 12 * ((n - 1) \div nseries),
                               year + ((n - 1) \div nseries),
                               standard_ts, do_total, missing_dv, req_precision)
        first_value == get_data_value(tslist[1], req_date1)
        monthly_sum == IF is_data_missing(first_value) THEN 0
                       ELSE first_value * num_days_in_month(MonthOf(req_date1), YearOf(req_date1))
    IN  IF nseries = 0
        THEN [raised |-> FALSE, lines |-> comments(10), call |-> NoCall]
        ELSE IF mixed
        THEN [raised |-> TRUE, lines |-> <<>>, call |-> NoCall]
        ELSE IF req_interval_base = "DAY"
        THEN [raised |-> passes > 0,
              lines |-> comments(13 + nseries) \o <<header>>,
              call |-> IF passes > 0
                       THEN [made |-> TRUE, width |-> 10, value |-> monthly_sum]
                       ELSE NoCall]
        ELSE [raised |-> FALSE,
              lines |-> comments(13 + nseries) \o <<header>>
                           \o [n \in 1..(passes * nseries) |-> line(n).line],
              call |-> IF passes > 0
                       THEN [made |-> TRUE, width |-> 10,
                             value |-> line(passes * nseries).annual_sum]
                       ELSE NoCall]

(***************************************************************************)
(* read_time_series_list2 on the lines of a file that holds monthly data   *)
(* lines, with no requested period.                                        *)
(***************************************************************************)
\* The year type the header code stands for; "raise" is the ValueError for
\* an unknown code.
HeaderYearType(yeartypes) ==
    CASE yeartypes \in {"CAL", ""} -> "WATER"
      [] yeartypes = "WYR" -> "WATER"
      [] yeartypes = "IYR" -> "NOV_TO_OCT"
      [] OTHER -> "raise"

NoSeries ==
    [id |-> "", interval |-> "", units |-> "", date1 |-> 0, date2 |-> -1, values |-> <<>>]

\* The time series object the caller hands in to be filled: only its
\* identifier is set.
RequestedSeries(req_id) == [NoSeries EXCEPT !.id = req_id]

\* TS.set_data_value for the twelve values of a data line from month d on;
\* a date outside the period of the series is ignored.
SetLineValues(ts, d, values) ==
    [ts EXCEPT !.values =
        [x \in DOMAIN ts.values |->
            IF x - d \in 0..(Len(values) - 1) THEN values[x - d + 1] ELSE ts.values[x]]]

\* What the header line gives: h is the parsed header.
HeaderContext(h, file_interval) ==
    [m1 |-> h.m1, y1 |-> h.y1, m2 |-> h.m2,
     y2 |-> IF h.y1 = 0 /\ h.m2 < h.m1 THEN 1 ELSE h.y2,
     units |-> h.units,
     yeartype |-> HeaderYearType(h.yeartype),
     standard_ts |-> h.y1 # 0,
     init_year |-> IF h.y1 = 0 THEN 0
                   ELSE IF file_interval = "MONTH" /\ h.m2 < h.m1 THEN h.y1 + 1
                   ELSE h.y1]

\* The state of the loop over the data lines before the first one.
LoopStart(req_id) ==
    [tslist |-> <<>>, numts |-> 0, current_ts_index |-> 0, req_id_found |-> FALSE,
     req_ts |-> IF req_id = "" THEN NoSeries ELSE RequestedSeries(req_id),
     ended |-> "no"]

\* The date of the first value of a data line labelled with the year itself.
DataLineDateOfLabel(c, current_year) == MonthDate(current_year, c.m1)

\* The date of the first value of a data line: month m1 of the year before
\* the label when the file has years and its year type is not the calendar year.
DataLineDate(c, current_year) ==
    MonthDate(IF c.standard_ts /\ c.yeartype # "CALENDAR"
              THEN current_year - 1 ELSE current_year, c.m1)

\* The index that stays at the first series.
SeriesIndexFirst(current_ts_index, numts) == 0

\* The index of the series a data line goes to: back to 0 after the last
\* station known.
SeriesIndex(current_ts_index, numts) ==
    IF current_ts_index >= numts THEN 0 ELSE current_ts_index

\* One pass of the loop on data line r.  ended becomes "break" when the loop
\* is left and "raise" when an exception reaches the general handler.
ReadDataLine(c, req_id, single_ts, file_interval, read_data, r, s) ==
    LET current_year == IF c.standard_ts THEN r.year ELSE 0
        \* A file of monthly data lines is taken to be monthly, or of unknown
        \* interval when no line follows its header.
        first_period == file_interval = "MONTH" /\ current_year = c.init_year
        created == [id |-> r.id, interval |-> "MONTH", units |-> c.units,
                    date1 |-> MonthDate(c.y1, c.m1), date2 |-> MonthDate(c.y2, c.m2),
                    values |-> IF read_data
                               THEN [x \in MonthDate(c.y1, c.m1)..MonthDate(c.y2, c.m2) |-> MISSING]
                               ELSE <<>>]
        tslist1 == IF first_period THEN Append(s.tslist, created) ELSE s.tslist
        numts1 == IF first_period THEN s.numts + 1 ELSE s.numts
        index == SeriesIndex(s.current_ts_index, numts1)
        date == DataLineDate(c, current_year)
    IN  IF req_id # "" /\ ~single_ts /\ r.id # req_id
        THEN s
        ELSE IF first_period /\ req_id # ""
        THEN \* The requested series gets the period and the units; locid is
             \* not bound when an identifier was requested.
             [s EXCEPT !.req_ts = [created EXCEPT !.id = req_id],
                       !.req_id_found = TRUE, !.numts = 1, !.ended = "raise"]
        ELSE IF ~first_period /\ ~read_data
        THEN [s EXCEPT !.ended = "break"]
        ELSE IF tslist1 = <<>>
        THEN [s EXCEPT !.ended = "raise"]
        ELSE [s EXCEPT !.tslist =
                           IF read_data
                           THEN [tslist1 EXCEPT ![index + 1] =
                                    SetLineValues(tslist1[index + 1], date, r.values)]
                           ELSE tslist1,
                       !.numts = numts1,
                       !.current_ts_index = index + 1]

RECURSIVE ReadDataLines(_, _, _, _, _, _, _)
ReadDataLines(c, req_id, single_ts, file_interval, read_data, records, s) ==
    IF records = <<>> \/ s.ended # "no" THEN s
    ELSE ReadDataLines(c, req_id, single_ts, file_interval, read_data, Tail(records),
                       ReadDataLine(c, req_id, single_ts, file_interval, read_data,
                                    records[1], s))

\* The result: None or the list, and the requested series as it was left.
ReadResult(s) ==
    [isNone |-> s.ended = "raise" \/ s.tslist = <<>>,
     list |-> IF s.ended = "raise" THEN <<>> ELSE s.tslist,
     req_ts |-> s.req_ts]

\* req_id is "" when no series is requested (req_ts is None).
read_time_series_list2_lines(req_id, lines, file_interval, read_data) ==
    LET start == LoopStart(req_id)
        none == ReadResult([start EXCEPT !.ended = "raise"])
        notcomment == {i \in DOMAIN lines : lines[i].kind # "comment"}
        \* The header is the first line that is not a comment, or the last
        \* line of a file of comments.
        header == IF notcomment = {} THEN Len(lines)
                  ELSE CHOOSE i \in notcomment : \A j \in notcomment : i <= j
        c == HeaderContext(lines[header].hdr, file_interval)
        data == {i \in notcomment : i > header}
        first == CHOOSE i \in data : \A j \in data : i <= j
        \* The line after the first data line is read at once, to tell a file
        \* of one station.
        single_ts == /\ lines[first].rec.id = lines[first + 1].rec.id
                     /\ lines[first].rec.year # lines[first + 1].rec.year
        rest == {i \in data : i > first + 1}
        order == <<first, first + 1>> \o
                 [n \in 1..Cardinality(rest) |->
                     CHOOSE i \in rest : Cardinality({j \in rest : j < i}) = n - 1]
        records == [n \in DOMAIN order |-> lines[order[n]].rec]
    IN  IF lines = <<>> THEN none
        ELSE IF lines[header].kind # "header" \/ c.yeartype = "raise" THEN none
        ELSE IF data = {} \/ first = Len(lines) THEN ReadResult(start)
        ELSE IF lines[first + 1].kind # "record" THEN none
        ELSE ReadResult(ReadDataLines(c, req_id, single_ts, file_interval, read_data,
                                      records, start))

\* The file objects get_file_data_interval leaves open when it returns.  The
\* first open is bound to f and never closed; the with statement binds f to
\* the second, which it closes.  The first is closed only if the
\* interpreter finalizes it at once when it loses its last reference.
unclosed_files(f, finalized) ==
    IF f.exists /\ ~finalized THEN 1 ELSE 0

\* What get_file_data_interval sees of the file: comment lines of one
\* character, a header line of 35 and monthly data lines of 123.
DetectorView(f) ==
    [exists |-> f.exists, xop |-> f.xop,
     lines |-> [i \in DOMAIN f.lines |->
                   IF f.lines[i].kind = "comment"
                   THEN [kind |-> "comment", len |-> 1, step |-> ""]
                   ELSE [kind |-> "text",
                         len |-> IF f.lines[i].kind = "header" THEN 35 ELSE 123,
                         step |-> ""]]]

\* read_time_series_list on a file that exists: the interval from the
\* detector, then read_time_series_list2 with no requested series.
read_time_series_list_lines(f) ==
    read_time_series_list2_lines("", f.lines, get_file_data_interval(DetectorView(f)), TRUE)

(***************************************************************************)
(* read_x_time_series_list: the reader of operational output files.  A     *)
(* file is a sequence of blocks: the header lines of a time series (the    *)
(* line with the identifier, the line of column titles that starts with   *)
(* YEAR, a line of underscores), one data line for each year, and the     *)
(* line AVG that closes the block.                                         *)
(***************************************************************************)

\* The year type for the first month of the column titles: the else branch
\* belongs to the test for NOV alone, so any other month leaves the function.
XopYearType(first_month) ==
    IF first_month = "NOV" THEN "NOV_TO_OCT" ELSE "return"

\* One pass of the loop over the lines.  year_read tells whether
\* StringUtil.fixed_read2 gets the year out of a first field that is read,
\* like the others, as a number of eight characters.
ReadXLine(l, read_data, year_read, s) ==
    LET starts == ~s.in_ts_header /\ l.kind \in {"xop_summary", "xop_id"}
        in_ts_header == s.in_ts_header \/ starts
    IN  IF l.kind = "comment" THEN s
        ELSE IF in_ts_header THEN
            CASE l.kind = "xop_rule" ->
                    [s EXCEPT !.in_ts_header = FALSE, !.in_ts_data = TRUE]
              [] l.kind = "xop_id" ->
                    [s EXCEPT !.in_ts_header = TRUE, !.id = l.rec.id]
              [] l.kind = "xop_months" ->
                    [s EXCEPT !.in_ts_header = TRUE, !.first_month = l.hdr.yeartype]
              [] OTHER -> [s EXCEPT !.in_ts_header = TRUE]
        ELSE IF s.in_ts_data THEN
            CASE l.kind = "xop_avg" ->
                    \* Any first month but NOV returns None; with NOV the text
                    \* for add_to_genesis adds a DateTime to a str and the
                    \* general handler returns None.
                    [s EXCEPT !.ended = "none"]
              [] l.kind = "xop_row" ->
                    IF ~year_read THEN [s EXCEPT !.ended = "none"]
                    ELSE [s EXCEPT !.year_array = Append(s.year_array, l.rec.year),
                                   \* every row of data_array is the same list
                                   !.data_row = IF read_data THEN l.rec.values
                                                ELSE s.data_row]
              [] OTHER -> s
        ELSE s

RECURSIVE ReadXLines(_, _, _, _)
ReadXLines(lines, read_data, year_read, s) ==
    IF lines = <<>> \/ s.ended # "no" THEN s
    ELSE ReadXLines(Tail(lines), read_data, year_read,
                    ReadXLine(lines[1], read_data, year_read, s))

\* The result for a monthly file and no requested series.  Without the data
\* the widths of the format are None and setting the first one raises before
\* a line is read.
read_x_time_series_list(lines, read_data, year_read) ==
    LET start == [in_ts_header |-> FALSE, in_ts_data |-> FALSE, id |-> "",
                  first_month |-> "", year_array |-> <<>>, data_row |-> <<>>,
                  tslist |-> <<>>, ended |-> "no"]
        s == IF read_data THEN ReadXLines(lines, read_data, year_read, start)
             ELSE [start EXCEPT !.ended = "none"]
    IN  [isNone |-> s.ended = "none", list |-> s.tslist, req_ts |-> NoSeries]

VARIABLES
    exp_saved,              \* StateMod_TS.exp_saved
    largest_number_saved,   \* StateMod_TS.largest_number_saved
    precision_call,         \* the last call of get_precision: arguments and result
    detector_file,          \* the file given to get_file_data_interval
    data_interval,          \* what get_file_data_interval returned ("none" before the call)
    tslist,                 \* the list of time series given to write_time_series_list
    write_args,             \* the other arguments of write_time_series_list
    written,                \* "no", or how write_time_series_list ended: "returned" or "raised"
    file,                   \* the time series file on disk
    read,                   \* the last read of the file: arguments and result
    units_call,             \* the last call of get_precision_with_units: arguments and result
    last_units,             \* StateMod_TS.last_units
    last_units_precision,   \* StateMod_TS.last_units_precision
    open_files              \* number of file objects opened by the calls and not closed

tsvars == <<exp_saved, largest_number_saved, precision_call, detector_file, data_interval,
            tslist, write_args, written, file, read, units_call, last_units,
            last_units_precision, open_files>>

NoArgs == [date1 |-> NoDate, date2 |-> NoDate, output_year_type |-> "", req_precision |-> 0]

NoRead ==
    [made |-> FALSE, req_id |-> "", read_data |-> FALSE, isNone |-> FALSE, list |-> <<>>,
     req_ts |-> NoSeries]

NoUnitsCall ==
    [made |-> FALSE, req_precision |-> 0, width |-> 0, value |-> 0, units |-> "", ret |-> 0]

NoPrecisionCall == [made |-> FALSE, req_precision |-> 0, width |-> 0, value |-> 0, ret |-> 0]

NoFile == [exists |-> FALSE, xop |-> FALSE, lines |-> <<>>]

\* The class attributes of StateMod_TS when the module is loaded.
InitTSClass ==
    /\ exp_saved = EXP_NOT_SAVED
    /\ largest_number_saved = 0
    /\ precision_call = NoPrecisionCall
    /\ units_call = NoUnitsCall
    /\ last_units = ""
    /\ last_units_precision = PRECISION_DEFAULT
    /\ open_files = 0

\* No call of get_file_data_interval yet.
InitDetector ==
    /\ detector_file = NoFile
    /\ data_interval = "none"

\* No time series file yet.
InitNoFile ==
    /\ tslist = <<>>
    /\ write_args = NoArgs
    /\ written = "no"
    /\ file = NoFile
    /\ read = NoRead

InitTS ==
    /\ InitTSClass
    /\ InitDetector
    /\ InitNoFile

(***************************************************************************)
(* Data objects: the file an entity reader is given and the list it        *)
(* returns, and a diversion station that client code makes and changes.    *)
(***************************************************************************)
VARIABLES
    entity_file,        \* the lines of the station or rights file on disk
    entity_list,        \* what the entity reader returned
    div                 \* a StateMod_Diversion object of the client code

entvars == <<entity_file, entity_list, div>>

NotRead == [made |-> FALSE, ids |-> <<>>]

\* No diversion object yet.
NoDiversion ==
    [made |-> FALSE, smdata_type |-> "", is_clone |-> FALSE, id |-> "", name |-> "",
     cgoto |-> "", switch |-> 0, setter |-> ""]

InitNoEntity ==
    /\ entity_file = <<>>
    /\ entity_list = NotRead
    /\ div = NoDiversion

\* The list of an entity reader that leaves out the records that do not
\* parse and goes on.
read_statemod_file_skipping(lines) ==
    LET kept == {i \in DOMAIN lines : lines[i].kind = "record" /\ lines[i].ok}
    IN  [n \in 1..Cardinality(kept) |->
            lines[CHOOSE i \in kept : Cardinality({j \in kept : j < i}) = n - 1].id]

\* The list an entity reader returns for the lines of a file.  Comment and
\* blank lines are passed over; a record whose numeric field does not parse
\* raises inside the loop, and the handler, which is outside the loop, logs
\* the line and lets the function return what was appended before.
read_statemod_file_lines(lines) ==
    LET bad == {i \in DOMAIN lines : lines[i].kind = "record" /\ ~lines[i].ok}
        kept == {i \in DOMAIN lines :
                    /\ lines[i].kind = "record"
                    /\ \A j \in bad : i < j}
    IN  [n \in 1..Cardinality(kept) |->
            lines[CHOOSE i \in kept : Cardinality({j \in kept : j < i}) = n - 1].id]

(***************************************************************************)
(* State.                                                                  *)
(***************************************************************************)
VARIABLES
    status,             \* "idle", "reading", "returned" or "raised": the call of read_statemod_file
    pc,                 \* position of the next block while reading
    props,              \* the properties of the response file on disk
    read_data,          \* parameter of read_statemod_file
    read_time_series,   \* self.read_time_series
    fileName,           \* data file name of each component
    dirty,              \* dirty flag of each component
    errorFlag,          \* error-reading-input-file flag of each component
    data,               \* payload of each component
    visible,            \* visibility of each component
    heap,               \* the list objects made so far
    v,                  \* local v of read_statemod_file
    comp2,              \* local comp2 of read_statemod_file ("" is None)
    numpre,             \* number of precipitation stations
    numeva,             \* number of evaporation stations
    unhandled,          \* unhandled_response_file_properties
    iday, iwell, ireach, isjrip, itsfile, ieffmax, soild,   \* control switches
    log,                \* history: the key of every step taken so far, in order
    uses,               \* history: <<block, maker>> for each list a block took over
    checked,            \* "no", or how check_component_visibility ended on the present
                        \* switches: "returned" or "raised"
    visHistory,         \* history: the value of iday at each run of check_component_visibility
    tree                \* the component tree: top-level nodes and <<parent, child>> pairs

switches == <<iday, iwell, ireach, isjrip, itsfile, ieffmax, soild>>
readvars == <<status, pc, props, read_data, read_time_series, fileName, dirty, errorFlag,
              data, heap, v, comp2, numpre, numeva, unhandled, log, uses>>
vars == <<readvars, visible, switches, checked, visHistory, tree, tsvars, entvars>>

Switches ==
    [iday |-> iday, iwell |-> iwell, ireach |-> ireach, isjrip |-> isjrip,
     itsfile |-> itsfile, ieffmax |-> ieffmax, soild |-> soild]

\* The fields a block may change, as one record.
Fields ==
    [fileName |-> fileName, dirty |-> dirty, errorFlag |-> errorFlag, data |-> data,
     heap |-> heap, v |-> v, comp2 |-> comp2, numpre |-> numpre, numeva |-> numeva,
     uses |-> uses, isjrip |-> isjrip]

(***************************************************************************)
(* Initial state: a data set as left by __init__ and initialize.           *)
(***************************************************************************)
\* A key no component is registered under.
UnknownKey == "StateMod_Executable"

RoleKeys == { Roles[i].key : i \in 1..NRoles } \ {""}

AllKeys == RoleKeys \cup (RegistryKeys \ {""}) \cup {UnknownKey}

KeyPairs ==
    { <<"Diversion_Station", "Diversion_Right">>,
      <<"Evaporation_Monthly", "Reservoir_Target_Monthly">>,
      <<"Precipitation_Annual", "Control">>,
      <<"SoilMoisture", "Network">>,
      <<"Stream_Base_Monthly", "Stream_Base_Daily">>,
      <<"Reservoir_Return", "StateCU_">>,
      <<"River_Network", "Evaporation_Annual">>,
      <<"DelayTable_Daily", UnknownKey>> }

\* A response file that lists four roles in the reverse of the order in which
\* read_statemod_file handles them.
ReversedKeys ==
    <<"Reservoir_Target_Monthly", "Evaporation_Monthly", "Diversion_Right", "Diversion_Station">>

\* The response files considered: none of the keys, one key, one of the key
\* pairs above in either order, or the reversed keys.
ResponseFiles ==
    {<<>>}
    \cup { [j \in DOMAIN ReversedKeys |-> [key |-> ReversedKeys[j], value |-> f]] : f \in Files }
    \cup { <<[key |-> k, value |-> f]>> : k \in AllKeys, f \in Files }
    \cup { <<[key |-> kp[1], value |-> f1], [key |-> kp[2], value |-> f2]>> :
              kp \in KeyPairs, f1 \in Files, f2 \in Files }
    \cup { <<[key |-> kp[2], value |-> f2], [key |-> kp[1], value |-> f1]>> :
              kp \in KeyPairs, f1 \in Files, f2 \in Files }

InitDataSet ==
    /\ fileName = [c \in Components |-> NoFileName]
    /\ dirty = [c \in Components |-> FALSE]
    /\ errorFlag = [c \in Components |-> FALSE]
    /\ data = [c \in Components |-> InitRef(c)]
    /\ visible = [c \in Components |-> TRUE]
    /\ heap = <<>>
    /\ numpre = 0
    /\ numeva = 0
    /\ unhandled = {}
    /\ read_time_series = TRUE
    /\ iday = 0 /\ iwell = 0 /\ ireach = 1 /\ isjrip = 0
    /\ itsfile = 0 /\ ieffmax = 0 /\ soild = 0
    /\ status = "idle"
    /\ pc = 0
    /\ read_data = FALSE
    /\ v = Unbound
    /\ comp2 = ""
    /\ log = <<>>
    /\ uses = {}
    /\ checked = "no"
    /\ visHistory = <<>>
    /\ tree = initialize

Init ==
    /\ InitDataSet
    /\ InitNoEntity
    /\ InitTS
    /\ props \in ResponseFiles

(***************************************************************************)
(* read_statemod_file, one action per step.                                *)
(***************************************************************************)
\* Entry: parameters, free-format test, response component file name.
BeginRead ==
    /\ status = "idle"
    /\ \E rd \in BOOLEAN, rts \in BOOLEAN :
          /\ read_data' = rd
          /\ read_time_series' = (rd /\ rts)
    /\ IF is_free_format_response_file(props)
       THEN /\ status' = "reading"
            /\ pc' = 1
            /\ fileName' = [fileName EXCEPT !["RESPONSE"] = ResponsePath]
       ELSE /\ status' = "raised"
            /\ UNCHANGED <<pc, fileName>>
    /\ UNCHANGED <<props, dirty, errorFlag, data, heap, v, comp2, numpre, numeva, unhandled,
                   log, uses, visible, switches, checked, visHistory, tree, tsvars, entvars>>

\* Writes the record of fields back to the variables.
Assign(s) ==
    /\ fileName' = s.fileName
    /\ dirty' = s.dirty
    /\ errorFlag' = s.errorFlag
    /\ data' = s.data
    /\ heap' = s.heap
    /\ v' = s.v
    /\ comp2' = s.comp2
    /\ numpre' = s.numpre
    /\ numeva' = s.numeva
    /\ uses' = s.uses

\* Whether the next block to run has a body of one of the kinds bodies.
AtBlock(bodies) ==
    /\ status = "reading"
    /\ pc \in 1..NRoles
    /\ RoleAt(pc, props).body \in bodies

\* One try / except / finally block.
RunBlock ==
    /\ Assign(Block(RoleAt(pc, props), Fields, pc, props, read_data, read_time_series))
    /\ log' = Append(log, RoleAt(pc, props).key)
    /\ pc' = pc + 1
    /\ UNCHANGED <<status, props, read_data, read_time_series, unhandled,
                   visible, switches, checked, visHistory, tree, tsvars, entvars>>

\* A role of which only the file name is kept.
StepNameOnly ==
    /\ AtBlock({"name"})
    /\ RunBlock

\* A role whose guarded body only announces the file.
StepAnnounce ==
    /\ AtBlock({"announce"})
    /\ RunBlock

\* A role read by the static reader of its class.
StepEntity ==
    /\ AtBlock({"entity"})
    /\ RunBlock

\* The diversion rights: read and connected to the stations.
StepRights ==
    /\ AtBlock({"rights"})
    /\ RunBlock

\* A role read by the time series reader.
StepTimeSeries ==
    /\ AtBlock({"ts", "minmax", "noset", "lenfirst", "clobber"})
    /\ RunBlock

\* The natural flow roles shared by stream gages and stream estimates.
StepStreamBase ==
    /\ AtBlock({"base"})
    /\ RunBlock

\* The monthly reservoir targets, which read no file.
StepReuseSeries ==
    /\ AtBlock({"stale"})
    /\ RunBlock

\* The soil moisture test, outside of any inner try: an exception of getsize
\* reaches the main handler, which raises it again.
StepSoilMoisture ==
    /\ AtBlock({"soil"})
    /\ LET fn == get_value(props, RoleAt(pc, props).key)
       IN  IF Guard("file", fn, read_data, read_time_series, isjrip) = "raise"
           THEN status' = "raised" /\ pc' = pc
           ELSE status' = status /\ pc' = pc + 1
    /\ log' = Append(log, RoleAt(pc, props).key)
    /\ UNCHANGED <<props, read_data, read_time_series, fileName, dirty, errorFlag, data, heap,
                   v, comp2, numpre, numeva, unhandled, uses,
                   visible, switches, checked, visHistory, tree, tsvars, entvars>>

\* The properties whose key is in no entry of statemod_file_properties.
UnhandledProps(p) == { p[i] : i \in { j \in DOMAIN p : p[j].key \notin RegistryKeys } }

\* Collects the unhandled properties, then logs to_string_definitions(), which
\* looks every component up by its plain integer index in the DataSet base
\* class: the lookup finds the component (ok) or yields None (raise).
StepUnhandled ==
    /\ AtBlock({"unhandled"})
    /\ unhandled' = UnhandledProps(props)
    /\ \E ok \in BOOLEAN :
          IF ok THEN status' = status /\ pc' = pc + 1
                ELSE status' = "raised" /\ pc' = pc
    /\ log' = Append(log, RoleAt(pc, props).key)
    /\ UNCHANGED <<props, read_data, read_time_series, fileName, dirty, errorFlag, data, heap,
                   v, comp2, numpre, numeva, uses,
                   visible, switches, checked, visHistory, tree, tsvars, entvars>>

\* After the blocks: component visibility, then the control component is
\* marked clean and the call returns.
FinishRead ==
    /\ status = "reading"
    /\ pc = NRoles + 1
    /\ LET cv == check_component_visibility(visible, Switches)
       IN  /\ visible' = cv.visible
           /\ IF cv.raised
              THEN status' = "raised" /\ dirty' = dirty /\ checked' = "raised"
              ELSE /\ status' = "returned"
                   /\ dirty' = [dirty EXCEPT !["CONTROL"] = FALSE]
                   /\ checked' = "returned"
    /\ visHistory' = Append(visHistory, iday)
    /\ UNCHANGED <<pc, props, read_data, read_time_series, fileName, errorFlag, data, heap,
                   v, comp2, numpre, numeva, unhandled, log, uses, switches, tree, tsvars, entvars>>

Next ==
    \/ BeginRead
    \/ StepNameOnly
    \/ StepAnnounce
    \/ StepEntity
    \/ StepRights
    \/ StepTimeSeries
    \/ StepStreamBase
    \/ StepReuseSeries
    \/ StepSoilMoisture
    \/ StepUnhandled
    \/ FinishRead

Spec == Init /\ [][Next]_vars

(***************************************************************************)
(* The control switches and check_component_visibility called on their own *)
(* by client code.                                                         *)
(***************************************************************************)
\* Largest value given to the daily switch.
MaxSwitch == 2

\* Largest number of calls of check_component_visibility followed.
MaxChecks == 2

SwitchValues ==
    [iday |-> 0..MaxSwitch, iwell |-> {0, 1}, ireach |-> {0, 1, 2, 3}, isjrip |-> {0, 1},
     itsfile |-> {0, 1}, ieffmax |-> {0, 1}, soild |-> {0, 1}]

InitVis ==
    /\ InitDataSet
    /\ InitNoEntity
    /\ InitTS
    /\ props = <<>>

\* Client code assigns one of the switch attributes.
SetSwitch ==
    /\ status = "idle"
    /\ \E name \in DOMAIN SwitchValues : \E x \in SwitchValues[name] :
          /\ x # Switches[name]
          /\ iday' = IF name = "iday" THEN x ELSE iday
          /\ iwell' = IF name = "iwell" THEN x ELSE iwell
          /\ ireach' = IF name = "ireach" THEN x ELSE ireach
          /\ isjrip' = IF name = "isjrip" THEN x ELSE isjrip
          /\ itsfile' = IF name = "itsfile" THEN x ELSE itsfile
          /\ ieffmax' = IF name = "ieffmax" THEN x ELSE ieffmax
          /\ soild' = IF name = "soild" THEN x ELSE soild
    /\ checked' = "no"
    /\ UNCHANGED <<readvars, visible, visHistory, tree, tsvars, entvars>>

\* Client code calls check_component_visibility.
CheckComponentVisibility ==
    /\ status = "idle"
    /\ Len(visHistory) < MaxChecks
    /\ LET cv == check_component_visibility(visible, Switches)
       IN  /\ visible' = cv.visible
           /\ checked' = IF cv.raised THEN "raised" ELSE "returned"
    /\ visHistory' = Append(visHistory, iday)
    /\ UNCHANGED <<readvars, switches, tree, tsvars, entvars>>

NextVis ==
    \/ SetSwitch
    \/ CheckComponentVisibility

SpecVis == InitVis /\ [][NextVis]_vars

(***************************************************************************)
(* Properties.                                                             *)
(***************************************************************************)
\* The role whose block has just run, while the read goes on.
JustRan(r) ==
    /\ status = "reading"
    /\ pc \in 2..(NRoles + 1)
    /\ r = RoleAt(pc - 1, props)

\* The roles that fetch a component.
ComponentRoles == { Roles[j] : j \in { k \in 1..NRoles : Roles[k].comp # "" } }

\* The roles whose payload is a list of time series.
TimeSeriesRoles == { r \in ComponentRoles : r.tag # "" }

\* The position of the step that collects the unhandled properties.
UnhandledAt == CHOOSE j \in 1..NRoles : Roles[j].body = "unhandled"

\* C1: for a free-format response file an exception raised while one file
\* role is processed never aborts read_statemod_file: the later properties
\* are processed and the call returns without raising.
C1_ReadNeverAborts ==
    is_free_format_response_file(props) => status # "raised"

\* C2: when read_statemod_file has run to its end, the dirty flag of every
\* component it processed is false.
C2_CleanWhenReadEnds ==
    (status \in {"returned", "raised"} /\ pc = NRoles + 1)
        => \A r \in ComponentRoles : ~dirty[r.comp]

\* C3: once the unhandled properties are collected, a response property is
\* among them exactly when its key is the key of none of the file roles
\* read_statemod_file handles.
C3_UnhandledIffNoRole ==
    (status # "idle" /\ pc > UnhandledAt)
        => \A j \in DOMAIN props : (props[j] \in unhandled) <=> (props[j].key \notin RoleKeys)

\* C4: a property naming a file that does not exist or has zero length leaves
\* the file name recorded on the component, the payload equal to the empty
\* payload set by initialize, and the error flag not set.
C4_MissingOrEmptyNotAnError ==
    \A r \in ComponentRoles :
        (JustRan(r) /\ get_value(props, r.key).kind \in {"missing", "empty"})
            => /\ fileName[r.comp] = get_value(props, r.key)
               /\ data[r.comp] = InitRef(r.comp)
               /\ ~errorFlag[r.comp]

\* C5: a time series file whose header line is malformed sets the error flag
\* of its component (and the read goes on with the next property).
C5_MalformedHeaderSetsErrorFlag ==
    \A r \in TimeSeriesRoles :
        (JustRan(r) /\ read_data /\ read_time_series
                    /\ get_value(props, r.key).kind = "malformed")
            => errorFlag[r.comp]

\* C6: for every time series role whose file exists and is not empty, with
\* read_data and read_time_series both true, the payload of the component
\* after its read is the list the time series reader returned for that file.
C6_PayloadIsReaderList ==
    \A r \in TimeSeriesRoles :
        (JustRan(r) /\ read_data /\ read_time_series /\ get_value(props, r.key).kind = "good")
            => /\ data[r.comp].k = "list"
               /\ heap[data[r.comp].i].by = pc - 1
               /\ heap[data[r.comp].i].src = get_value(props, r.key)
               /\ heap[data[r.comp].i].n = get_value(props, r.key).n

\* C7: after Stream_Base_Monthly is read, the stream gage and the stream
\* estimate natural flow components of the month hold the same list object,
\* and likewise for the day after Stream_Base_Daily.
C7_NaturalFlowShared ==
    \A r \in ComponentRoles :
        (JustRan(r) /\ read_data /\ r.key \in {"Stream_Base_Monthly", "Stream_Base_Daily"}
                    /\ get_value(props, r.key).kind = "good")
            => LET gage == IF r.key = "Stream_Base_Monthly"
                           THEN "STREAMGAGE_NATURAL_FLOW_TS_MONTHLY"
                           ELSE "STREAMGAGE_NATURAL_FLOW_TS_DAILY"
                   estimate == IF r.key = "Stream_Base_Monthly"
                               THEN "STREAMESTIMATE_NATURAL_FLOW_TS_MONTHLY"
                               ELSE "STREAMESTIMATE_NATURAL_FLOW_TS_DAILY"
               IN  /\ data[gage].k = "list"
                   /\ data[gage] = data[estimate]

\* C8: after the Diversion_Right read, every right whose station identifier
\* is that of a diversion station read earlier is attached to that station,
\* and a right that matches no station is attached nowhere, without an error.
C8_MatchingRightsAttached ==
    \A r \in ComponentRoles :
        (JustRan(r) /\ read_data /\ r.key = "Diversion_Right"
                    /\ get_value(props, "Diversion_Right").kind = "good"
                    /\ get_value(props, "Diversion_Station").kind = "good")
            => /\ ~errorFlag["DIVERSION_RIGHTS"]
               /\ data["DIVERSION_STATIONS"].k = "list"
               /\ \A j \in 1..get_value(props, "Diversion_Station").n :
                     heap[data["DIVERSION_STATIONS"].i].rights[j]
                        = {q \in 1..get_value(props, "Diversion_Right").n : q = j}

C11_SanJuanFollowsIsjrip ==
    checked # "no" => (visible["SANJUAN_RIP"] = (isjrip # 0))

\* The number of nodes of component type c in the tree.
NodeCount(c) ==
    Cardinality({n \in tree.top : n[2] = c}) + Cardinality({n \in tree.edges : n[3] = c})

\* The groups that component c is a child of.
ParentsOf(c) == {n[2] : n \in {m \in tree.edges : m[3] = c}}

\* C12: after initialize each of the 75 component types has exactly one node
\* in the component tree, and every component that is not a group is a child
\* of the group the group-assignment table gives for its type.
C12_TreeMatchesRegistry ==
    \A c \in Components :
        /\ NodeCount(c) = 1
        /\ c \notin component_groups =>
              ParentsOf(c) = {component_group_assignments[TypeIndex(c)]}

(***************************************************************************)
(* get_precision called by client code, any number of times.               *)
(***************************************************************************)
dsvars == <<readvars, visible, switches, checked, visHistory, tree, entvars>>

\* The requested precisions, column widths and values (in hundredths) given.
ReqPrecisions == {-2000, -2, -1, 0, 2, 2000}

Widths == {4, 8}

PrecisionValues ==
    {0, 50, -50, 900, 950, 1000, -900, -1000, 9900, 10000, -9900, -10000,
     999900, 1000000, -999900, -1000000, 9999900, 9999950, 10000000,
     -9999900, -10000000, 99999900, 100000000}

InitPrecision ==
    /\ InitDataSet
    /\ InitNoEntity
    /\ props = <<>>
    /\ InitTS

GetPrecision ==
    /\ \E p \in ReqPrecisions, w \in Widths, x \in PrecisionValues :
          LET r == get_precision(p, w, x, exp_saved, largest_number_saved)
          IN  /\ exp_saved' = r.exp_saved
              /\ largest_number_saved' = r.largest_number_saved
              /\ precision_call' =
                    [made |-> TRUE, req_precision |-> p, width |-> w, value |-> x, ret |-> r.ret]
    /\ UNCHANGED <<dsvars, detector_file, data_interval, tslist, write_args, written, file, read,
                   units_call, last_units, last_units_precision, open_files>>

NextPrecision == GetPrecision

SpecPrecision == InitPrecision /\ [][NextPrecision]_vars

\* |value| is no more than 10^(width + p - 1) - 1, with one column less for a
\* negative value.
FitsColumn(p, w, x) ==
    LET e == IF x < 0 THEN w + p - 2 ELSE w + p - 1
    IN  e >= 0 /\ Abs(x) <= (Pow10(e) - 1) * 100

\* C20 as stated: for every negative requested precision p the result is -p
\* when the value fits the column and 0 otherwise.
C20_NegativePrecision ==
    (precision_call.made /\ precision_call.req_precision < 0) =>
        precision_call.ret =
            IF FitsColumn(precision_call.req_precision, precision_call.width, precision_call.value)
            THEN -precision_call.req_precision ELSE 0

\* C20: for a negative requested precision p no lower than -1000, get_precision
\* returns -p when the value fits the column and 0 otherwise, whatever calls
\* were made before.
C20_NegativePrecisionWithinOffset ==
    (precision_call.made /\ precision_call.req_precision < 0
        /\ precision_call.req_precision >= -PRECISION_SPECIAL_OFFSET) =>
        precision_call.ret =
            IF FitsColumn(precision_call.req_precision, precision_call.width, precision_call.value)
            THEN -precision_call.req_precision ELSE 0

\* A call with precision -2 that finds the limit of its column saved by an
\* earlier call, and a value too large for the column.
C20_Witness ==
    /\ precision_call.made
    /\ precision_call.req_precision = -2
    /\ precision_call.width = 8
    /\ precision_call.value = 9999950
    /\ precision_call.ret = 0
    /\ exp_saved = 5

(***************************************************************************)
(* get_file_data_interval called on a file.                                *)
(***************************************************************************)
\* Most lines in a file given to the detector.
MaxLines == 4

DetectorLines ==
    [kind : {"blank"}, len : {0}, step : {""}]
        \cup [kind : {"comment"}, len : {1, 200}, step : {""}]
        \cup [kind : {"comment"}, len : {20}, step : {"MONTHLY", "DAILY"}]
        \cup [kind : {"text"}, len : {33, 150, 151, 273}, step : {""}]

RECURSIVE SeqsUpTo(_, _)
SeqsUpTo(S, n) ==
    IF n = 0 THEN {<<>>}
    ELSE LET shorter == SeqsUpTo(S, n - 1)
         IN  shorter \cup {Append(q, x) : q \in {r \in shorter : Len(r) = n - 1}, x \in S}

DetectorFiles ==
    [exists : {FALSE}, xop : BOOLEAN, lines : {<<>>}]
        \cup [exists : {TRUE}, xop : BOOLEAN, lines : SeqsUpTo(DetectorLines, MaxLines)]

InitInterval ==
    /\ InitDataSet
    /\ InitNoEntity
    /\ props = <<>>
    /\ InitTSClass
    /\ InitNoFile
    /\ detector_file \in DetectorFiles
    /\ data_interval = "none"

GetFileDataInterval ==
    /\ data_interval = "none"
    /\ data_interval' = get_file_data_interval(detector_file)
    /\ \E finalized \in BOOLEAN :
          open_files' = open_files + unclosed_files(detector_file, finalized)
    /\ UNCHANGED <<dsvars, exp_saved, largest_number_saved, precision_call, detector_file,
                   tslist, write_args, written, file, read, units_call,
                   last_units, last_units_precision>>

NextInterval == GetFileDataInterval

SpecInterval == InitInterval /\ [][NextInterval]_vars

\* The position of the header line: the first line that is neither blank nor
\* a comment (0 when there is none).
HeaderLine ==
    LET text == {i \in DOMAIN detector_file.lines : detector_file.lines[i].kind = "text"}
    IN  IF text = {} THEN 0 ELSE CHOOSE j \in text : \A k \in text : j <= k

MaxTS == 2

\* Most years in the period of a series.
MaxYears == 2

\* The values of a series: every month has its own cents, every year its own
\* tens; "gaps" leaves February and March of the first year missing and
\* "large" holds numbers too wide for two decimals.
SeriesValue(seed, date1, d) ==
    CASE seed = "gaps" /\ d - date1 < 12 /\ MonthOf(d) \in {2, 3} -> MISSING
      [] seed = "large" -> 10000050 + 100 * MonthOf(d)
      [] OTHER -> 1000 * (1 + (YearOf(d) % 5)) + 100 + MonthOf(d)

Series(id, interval, units, date1, months, seed) ==
    [id |-> id, interval |-> interval, units |-> units,
     date1 |-> date1, date2 |-> date1 + months - 1,
     values |-> [d \in date1..(date1 + months - 1) |-> SeriesValue(seed, date1, d)]]

\* The periods of the monthly series: whole years from January 1950 or
\* October 1949, one year from March 1950, and the average year 0 from October.
Periods ==
    {<<MonthDate(1950, 1), 12 * n>> : n \in 1..MaxYears}
        \cup {<<MonthDate(1949, 10), 12 * n>> : n \in 1..MaxYears}
        \cup {<<MonthDate(1950, 3), 12>>, <<MonthDate(0, 10), 12>>}

\* The first series of a list, and the series that may follow it.
Shapes ==
    {<<"MONTH", p[1], p[2], seed>> : p \in Periods, seed \in {"plain", "gaps", "large"}}
        \cup {<<"DAY", MonthDate(1950, 1), 12, "plain">>}

OtherShapes ==
    {<<"MONTH", MonthDate(1950, 1), 12, "plain">>,
     <<"MONTH", MonthDate(1949, 10), 24, "gaps">>,
     <<"DAY", MonthDate(1950, 1), 12, "plain">>}

StationIds == <<"X", "Y", "Z">>

TimeSeriesLists ==
    {[i \in 1..Len(q) |-> Series(StationIds[i], q[i][1], u, q[i][2], q[i][3], q[i][4])] :
        q \in {<<first>> \o rest : first \in Shapes, rest \in SeqsUpTo(OtherShapes, MaxTS - 1)},
        u \in {"ACFT", "CFS"}}

WriteArgs ==
    [date1 : {NoDate}, date2 : {NoDate},
     output_year_type : {"CALENDAR", "WATER", "NOV_TO_OCT"},
     req_precision : {PRECISION_DEFAULT, 0}]

InitWrite ==
    /\ tslist \in TimeSeriesLists
    /\ write_args \in WriteArgs
    /\ written = "no"
    /\ file = NoFile
    /\ read = NoRead

\* The values of the data line of a station for a year, each column its own.
RecordValues(year, station) ==
    [k \in 1..12 |-> 100000 * (year % 10) + 10000 * station + 100 * k]

\* A file as a user program writes it: comments, the header with the given
\* year type code, start month and start year, then for each year one data
\* line for each station.  Start year 0 gives the file of an average year.
BuiltFile(code, m1, y1, nyears, nstations, ncomments) ==
    LET m2 == IF m1 = 1 THEN 12 ELSE m1 - 1
        y2 == IF y1 = 0 THEN 0 ELSE IF m1 = 1 THEN y1 + nyears - 1 ELSE y1 + nyears
        first == IF y1 = 0 THEN 0 ELSE IF m1 = 1 THEN y1 ELSE y1 + 1
        header == FileHeader([m1 |-> m1, y1 |-> y1, m2 |-> m2, y2 |-> y2,
                              units |-> "ACFT", yeartype |-> code])
        record(n) ==
            LET year == first + ((n - 1) \div nstations)
                station == ((n - 1) % nstations) + 1
            IN  FileRecord([year |-> year, month |-> 0, id |-> StationIds[station],
                            values |-> RecordValues(year, station),
                            total |-> SumSeq(RecordValues(year, station)),
                            decimals |-> 2])
    IN  [exists |-> TRUE, xop |-> FALSE,
         lines |-> [i \in 1..ncomments |-> FileComment] \o <<header>>
                      \o [n \in 1..(nyears * nstations) |-> record(n)]]

HeaderCodes == {"", "CYR", "WYR", "IYR"}

BuiltFiles ==
    {BuiltFile(code, m1, 1950, nyears, nstations, ncomments) :
        code \in HeaderCodes, m1 \in {1, 10, 11}, nyears \in 1..MaxYears,
        nstations \in 1..MaxTS, ncomments \in {0, 2}}
    \cup
    {BuiltFile(code, m1, 0, 1, nstations, ncomments) :
        code \in HeaderCodes, m1 \in {1, 10, 11}, nstations \in 1..MaxTS,
        ncomments \in {0, 2}}

\* A file is there to be read; nothing is to be written.
InitBuilt ==
    /\ tslist = <<>>
    /\ write_args = NoArgs
    /\ written = "n/a"
    /\ file \in BuiltFiles
    /\ read = NoRead

\* The lines of one block of an operational output file: the time series
\* header, a data line for each year and, when the block is closed, AVG.
XopBlock(station, first_month, nyears, closed) ==
    LET line(kind, id, month, year, values) ==
            [kind |-> kind,
             hdr |-> [NoHeader EXCEPT !.yeartype = month],
             rec |-> [NoRecord EXCEPT !.id = id, !.year = year, !.values = values]]
    IN  <<line("xop_id", StationIds[station], "", 0, <<>>),
          line("xop_months", "", first_month, 0, <<>>),
          line("xop_rule", "", "", 0, <<>>)>>
        \o [n \in 1..nyears |->
                line("xop_row", "", "", 1949 + n, RecordValues(1949 + n, station))]
        \o (IF closed THEN <<line("xop_avg", "", "", 0, <<>>)>> ELSE <<>>)

\* Operational output files of up to MaxTS blocks, after a comment and the
\* line of the summary title.
XopFiles ==
    LET Blocks(station) ==
            {XopBlock(station, first_month, nyears, closed) :
                first_month \in {"JAN", "OCT", "NOV"}, nyears \in 1..MaxYears,
                closed \in BOOLEAN}
        top == <<FileComment, [kind |-> "xop_summary", hdr |-> NoHeader, rec |-> NoRecord]>>
    IN  {[exists |-> TRUE, xop |-> TRUE, lines |-> top \o b] : b \in Blocks(1)}
        \cup (IF MaxTS < 2 THEN {}
              ELSE {[exists |-> TRUE, xop |-> TRUE, lines |-> top \o b1 \o b2] :
                       b1 \in Blocks(1), b2 \in Blocks(2)})

\* An operational output file is there to be read.
InitXop ==
    /\ tslist = <<>>
    /\ write_args = NoArgs
    /\ written = "n/a"
    /\ file \in XopFiles
    /\ read = NoRead

InitCodec ==
    /\ InitDataSet
    /\ InitNoEntity
    /\ props = <<>>
    /\ InitTSClass
    /\ InitDetector
    /\ (InitWrite \/ InitBuilt \/ InitXop)

WriteTimeSeriesList ==
    /\ written = "no"
    /\ LET w == write_time_series_list(tslist, write_args.date1, write_args.date2,
                                       write_args.output_year_type, MISSING,
                                       write_args.req_precision)
           g == get_precision(write_args.req_precision, w.call.width, w.call.value,
                              exp_saved, largest_number_saved)
       IN  /\ file' = [exists |-> TRUE, xop |-> FALSE, lines |-> w.lines]
           /\ written' = IF w.raised THEN "raised" ELSE "returned"
           /\ exp_saved' = IF w.call.made THEN g.exp_saved ELSE exp_saved
           /\ largest_number_saved' =
                 IF w.call.made THEN g.largest_number_saved ELSE largest_number_saved
    /\ UNCHANGED <<dsvars, precision_call, detector_file, data_interval, tslist, write_args,
                   read, units_call, last_units, last_units_precision, open_files>>

\* The ids a caller asks read_time_series_list2 for: none, the first station
\* of the file, or a station the file does not hold.
RequestedIds == {"", "X", "Q"}

\* read_time_series_list on the file.
ReadTimeSeriesList ==
    /\ file.exists
    /\ ~file.xop
    /\ ~read.made
    /\ LET r == read_time_series_list_lines(file)
       IN  read' = [made |-> TRUE, req_id |-> "", read_data |-> TRUE,
                    isNone |-> r.isNone, list |-> r.list, req_ts |-> r.req_ts]
    \* get_file_data_interval is called for the interval; the file read is
    \* opened in a with statement.
    /\ \E finalized \in BOOLEAN :
          open_files' = open_files + unclosed_files(file, finalized)
    /\ UNCHANGED <<dsvars, exp_saved, largest_number_saved, precision_call, detector_file,
                   data_interval, tslist, write_args, written, file, units_call,
                   last_units, last_units_precision>>

\* read_time_series_list2 called with a series to fill, or without the data,
\* and with the interval get_file_data_interval gives for the file.
ReadTimeSeriesList2 ==
    /\ file.exists
    /\ ~file.xop
    /\ ~read.made
    /\ \E req_id \in RequestedIds, rd \in BOOLEAN :
          /\ req_id # "" \/ ~rd
          /\ LET r == read_time_series_list2_lines(req_id, file.lines,
                          get_file_data_interval(DetectorView(file)), rd)
             IN  read' = [made |-> TRUE, req_id |-> req_id, read_data |-> rd,
                          isNone |-> r.isNone, list |-> r.list, req_ts |-> r.req_ts]
    /\ UNCHANGED <<dsvars, exp_saved, largest_number_saved, precision_call, detector_file,
                   data_interval, tslist, write_args, written, file, units_call,
                   last_units, last_units_precision, open_files>>

\* read_x_time_series_list on an operational output file, monthly, with no
\* requested series.
ReadXTimeSeriesList ==
    /\ file.exists
    /\ file.xop
    /\ ~read.made
    /\ \E rd \in BOOLEAN, year_read \in BOOLEAN :
          LET r == read_x_time_series_list(file.lines, rd, year_read)
          IN  read' = [made |-> TRUE, req_id |-> "", read_data |-> rd,
                       isNone |-> r.isNone, list |-> r.list, req_ts |-> r.req_ts]
    /\ UNCHANGED <<dsvars, exp_saved, largest_number_saved, precision_call, detector_file,
                   data_interval, tslist, write_args, written, file, units_call,
                   last_units, last_units_precision, open_files>>

NextCodec ==
    \/ WriteTimeSeriesList
    \/ ReadTimeSeriesList
    \/ ReadTimeSeriesList2
    \/ ReadXTimeSeriesList

SpecCodec == InitCodec /\ [][NextCodec]_vars

\* The data lines of the file.
DataLines == {i \in DOMAIN file.lines : file.lines[i].kind = "record"}

\* The units of the header line of the file.
FileUnits ==
    LET i == CHOOSE j \in DOMAIN file.lines : file.lines[j].kind = "header"
    IN  file.lines[i].hdr.units

WrittenValue(x) ==
    IF is_data_missing(x) THEN MISSING
    ELSE format_string(x, Precision(write_args.req_precision, 8, x))

\* C13: write_time_series_list followed by read_time_series_list gives, for
\* every series of a list of one interval and for every output year type,
\* the same identifier, units, period and values rounded as written.
C13_RoundTrip ==
    (/\ written \in {"returned", "raised"}
     /\ \A i \in DOMAIN tslist : tslist[i].interval = tslist[1].interval
     /\ read.made /\ read.req_id = "" /\ read.read_data) =>
        /\ written = "returned"
        /\ ~read.isNone
        /\ Len(read.list) = Len(tslist)
        /\ \A i \in DOMAIN tslist :
              /\ read.list[i].id = tslist[i].id
              /\ read.list[i].units = tslist[i].units
              /\ read.list[i].date1 = tslist[i].date1
              /\ read.list[i].date2 = tslist[i].date2
              /\ \A d \in DOMAIN tslist[i].values :
                    read.list[i].values[d] = WrittenValue(tslist[i].values[d])

\* The header of the file and the data lines that follow it.
HasHeader == \E i \in DOMAIN file.lines : file.lines[i].kind = "header"

Hdr == file.lines[CHOOSE i \in DOMAIN file.lines : file.lines[i].kind = "header"].hdr

\* The series holds the twelve values of the data line from month d on.
HoldsRecord(ts, r, d) ==
    \A k \in 1..12 :
        /\ (d + k - 1) \in DOMAIN ts.values
        /\ ts.values[d + k - 1] = r.values[k]

\* The series a read gave back: those of the list and the one handed in.
ReturnedSeries == {read.list[i] : i \in DOMAIN read.list} \cup {read.req_ts}

\* A water-year file of one station X with a data line for each of two or
\* more years.
SingleStationFile ==
    /\ written = "n/a"
    /\ HasHeader
    /\ Hdr.yeartype = "WYR" /\ Hdr.m1 = 10 /\ Hdr.y1 # 0
    /\ Cardinality(DataLines) >= 2
    /\ \A i \in DataLines : file.lines[i].rec.id = "X"

\* C15: reading a file of the single station X, repeated over N years, for
\* a requested series of identifier Q gives one series, identified Q, that
\* holds the values of all N years.
C15_SingleSeriesRelabelled ==
    (/\ SingleStationFile
     /\ read.made /\ read.req_id = "Q" /\ read.read_data) =>
        /\ Len(read.list) <= 1
        /\ \E ts \in ReturnedSeries :
              /\ ts.id = "Q"
              /\ \A i \in DataLines :
                    HoldsRecord(ts, file.lines[i].rec,
                                MonthDate(file.lines[i].rec.year - 1, 10))

\* A monthly file with year type WYR whose header starts in October.
WaterYearFile ==
    /\ HasHeader
    /\ Hdr.yeartype = "WYR" /\ Hdr.m1 = 10 /\ Hdr.y1 # 0

BuiltFileRead ==
    /\ written = "n/a"
    /\ HasHeader /\ Hdr.y1 # 0
    /\ Cardinality(DataLines) >= 2
    /\ read.made /\ read.req_id = "" /\ read.read_data

\* C17: the reader accepts the year type codes blank, CYR, WYR and IYR, and
\* with blank or CYR (calendar year) the values of a data line labelled
\* year Y are stored in the calendar year Y.
C17_YearTypeCodes ==
    BuiltFileRead =>
        /\ ~read.isNone
        /\ (Hdr.yeartype \in {"", "CYR"} /\ Hdr.m1 = 1) =>
              \A i \in DataLines :
                  \E n \in DOMAIN read.list :
                      /\ read.list[n].id = file.lines[i].rec.id
                      /\ HoldsRecord(read.list[n], file.lines[i].rec,
                                     MonthDate(file.lines[i].rec.year, 1))

\* A built monthly file of an average year (header start year 0) whose end
\* month is before its start month, with a year type code the reader knows,
\* has been read with its data by read_time_series_list.
AverageFileRead ==
    /\ written = "n/a"
    /\ HasHeader /\ Hdr.y1 = 0 /\ Hdr.m2 < Hdr.m1
    /\ Hdr.yeartype \in {"", "WYR", "IYR"}
    /\ read.made /\ read.req_id = "" /\ read.read_data

\* C18: reading a monthly file with header start year 0 and end month before
\* start month gives for every station of the file, also when it is the only
\* one, a series from the start month of year 0 to the end month of year 1
\* that holds the twelve values of the data line of the station.
C18_AverageYear ==
    AverageFileRead =>
        \A i \in DataLines :
            \E n \in DOMAIN read.list :
                /\ read.list[n].id = file.lines[i].rec.id
                /\ read.list[n].date1 = MonthDate(0, Hdr.m1)
                /\ read.list[n].date2 = MonthDate(1, Hdr.m2)
                /\ DOMAIN read.list[n].values = MonthDate(0, Hdr.m1)..MonthDate(1, Hdr.m2)
                /\ HoldsRecord(read.list[n], file.lines[i].rec, MonthDate(0, Hdr.m1))

\* A file of several stations, listed in every period in the same order, has
\* been read with its data and gave a list.
MultiSeriesRead ==
    /\ HasHeader /\ Hdr.y1 # 0
    /\ read.made /\ read.read_data /\ ~read.isNone
    /\ \A i, j \in DataLines :
          file.lines[i].rec.id = file.lines[j].rec.id
              <=> \E q \in 0..Len(file.lines) : j - i = q * Len(read.list) \/ i - j = q * Len(read.list)

C22_OneLinePerOutputYear ==
    (written = "returned" /\ HasHeader /\ Hdr.y1 # 0) =>
        /\ \A i \in DataLines : file.lines[i].rec.year <= Hdr.y2
        /\ \A n \in DOMAIN tslist :
              Cardinality({i \in DataLines : file.lines[i].rec.id = tslist[n].id})
                  = (MonthDate(Hdr.y2, Hdr.m2) - MonthDate(Hdr.y1, Hdr.m1) + 1) \div 12

\* C23: for a list that mixes daily and monthly series the writer does not
\* raise and writes data lines for the series of the interval of the first
\* series only.
C23_MixedListWritten ==
    (/\ written # "no" /\ tslist # <<>>
     /\ \E n \in DOMAIN tslist : tslist[n].interval # tslist[1].interval) =>
        /\ written = "returned"
        /\ \A i \in DataLines :
              \E n \in DOMAIN tslist :
                  /\ tslist[n].id = file.lines[i].rec.id
                  /\ tslist[n].interval = tslist[1].interval

\* The blocks of an operational output file that are closed by AVG, in the
\* order of the file: the line numbers of their column titles.
ClosedBlocks ==
    {i \in DOMAIN file.lines :
        /\ file.lines[i].kind = "xop_months"
        /\ \E j \in DOMAIN file.lines :
              /\ j > i /\ file.lines[j].kind = "xop_avg"
              /\ \A q \in (i + 1)..(j - 1) : file.lines[q].kind \in {"xop_rule", "xop_row"}}

\* The start month of the year type named by the first month of the titles.
FirstMonthNumber(first_month) ==
    CASE first_month = "JAN" -> 1 [] first_month = "OCT" -> 10 [] OTHER -> 11

\* C24: reading an operational output file with no requested series gives a
\* series for every block closed by AVG, each with the year type (calendar,
\* water, November to October) of the first month of the block's titles.
C24_XopSeriesPerBlock ==
    (file.xop /\ read.made /\ read.read_data) =>
        /\ ~read.isNone
        /\ Len(read.list) = Cardinality(ClosedBlocks)
        /\ \A i \in ClosedBlocks :
              LET n == Cardinality({j \in ClosedBlocks : j <= i})
              IN  MonthOf(read.list[n].date1) = FirstMonthNumber(file.lines[i].hdr.yeartype)

\* C25: for every block closed by AVG the series made from it holds, for
\* each data line of the block, the twelve values of that line in the year
\* of the line, and no value of another line.
C25_XopRowValues ==
    (file.xop /\ read.made /\ read.read_data) =>
        \A i \in ClosedBlocks :
            LET n == Cardinality({j \in ClosedBlocks : j <= i})
                rows == {q \in DOMAIN file.lines :
                            /\ q > i /\ file.lines[q].kind = "xop_row"
                            /\ \A p \in i..q : file.lines[p].kind # "xop_avg"}
            IN  /\ n \in DOMAIN read.list
                /\ \A q \in rows :
                      \E d \in DOMAIN read.list[n].values :
                          HoldsRecord(read.list[n], file.lines[q].rec, d)
                /\ \A d \in DOMAIN read.list[n].values :
                      \E q \in rows : \E k \in 1..12 :
                          read.list[n].values[d] = file.lines[q].rec.values[k]

\* The key of the component in the registry.
OwnKey(c) == statemod_file_properties[TypeIndex(c)]

\* C26: when read_statemod_file has run to its end, the file name of a
\* component (but the response file's, which is the file read) is never a
\* value given under a key that is not its own: it is the value of its own
\* key, or the name it had before the read.
C26_FileNameFromOwnKey ==
    (status \in {"returned", "raised"} /\ pc = NRoles + 1) =>
        \A c \in Components \ {"RESPONSE"} :
            fileName[c] \in {NoFileName}
                \cup (IF OwnKey(c) = "" THEN {} ELSE {get_value(props, OwnKey(c))})

\* C29: when get_file_data_interval has returned, on the normal path and on
\* every error path, no file object it opened is still open.
C29_NoOpenFileAfterCall ==
    data_interval # "none" => open_files = 0

(***************************************************************************)
(* get_precision_with_units called again and again.                        *)
(***************************************************************************)
\* The class attributes the precision functions keep between calls.
Saved ==
    [ret |-> 0, exp_saved |-> exp_saved, largest_number_saved |-> largest_number_saved,
     last_units |-> last_units, last_units_precision |-> last_units_precision]

\* The attributes as the class defines them.
NothingSaved ==
    [ret |-> 0, exp_saved |-> EXP_NOT_SAVED, largest_number_saved |-> 0,
     last_units |-> "", last_units_precision |-> PRECISION_DEFAULT]

UnitsValues == {0, 950, 999900, 9999950, 100000000, -9999900}

GetPrecisionWithUnits ==
    /\ \E p \in {PRECISION_DEFAULT, 0}, w \in Widths, x \in UnitsValues,
          u \in {"", "ACFT", "acft", "CFS"} :
          LET r == get_precision_with_units(p, w, x, u, Saved)
          IN  /\ exp_saved' = r.exp_saved
              /\ largest_number_saved' = r.largest_number_saved
              /\ last_units' = r.last_units
              /\ last_units_precision' = r.last_units_precision
              /\ units_call' = [made |-> TRUE, req_precision |-> p, width |-> w, value |-> x,
                                units |-> u, ret |-> r.ret]
    /\ UNCHANGED <<dsvars, precision_call, detector_file, data_interval, tslist, write_args,
                   written, file, read, open_files>>

NextUnits == GetPrecisionWithUnits

SpecUnits == InitPrecision /\ [][NextUnits]_vars

\* C28: the number get_precision_with_units returns for its arguments is the
\* number it returns for them when nothing has been saved by earlier calls.
C28_SameWhateverCameBefore ==
    units_call.made =>
        units_call.ret = get_precision_with_units(units_call.req_precision, units_call.width,
                                                  units_call.value, units_call.units,
                                                  NothingSaved).ret

(***************************************************************************)
(* An entity reader called on a station or rights file.                    *)
(***************************************************************************)
\* Most lines in a file given to an entity reader.
MaxRecords == 4

\* Files of comment lines, records that parse and records with a numeric
\* field that does not; a record is known by its line number.
EntityFiles ==
    UNION {[1..n -> {"comment", "good", "bad"}] : n \in 0..MaxRecords}

EntityLines(f) ==
    [i \in DOMAIN f |->
        [kind |-> IF f[i] = "comment" THEN "comment" ELSE "record",
         id |-> i, ok |-> f[i] # "bad"]]

InitEntity ==
    /\ InitDataSet
    /\ props = <<>>
    /\ InitTS
    /\ entity_file \in {EntityLines(f) : f \in EntityFiles}
    /\ entity_list = NotRead
    /\ div = NoDiversion

ReadEntityFile ==
    /\ ~entity_list.made
    /\ entity_list' = [made |-> TRUE, ids |-> read_statemod_file_lines(entity_file)]
    /\ UNCHANGED <<readvars, visible, switches, checked, visHistory, tree, tsvars,
                   entity_file, div>>

NextEntity == ReadEntityFile

SpecEntity == InitEntity /\ [][NextEntity]_vars

\* The records of the file that do not parse.
BadRecords ==
    {i \in DOMAIN entity_file : entity_file[i].kind = "record" /\ ~entity_file[i].ok}

\* The records a reader returned.
Returned == {entity_list.ids[n] : n \in DOMAIN entity_list.ids}

NoComponentType == "-999"

\* StateMod_Diversion.initialize_statemod_diversion.
initialize_statemod_diversion(d) == [d EXCEPT !.smdata_type = "DIVERSION_STATIONS"]

\* StateMod_Data.__init__, which ends with initialize().
StateMod_Data_init(d) ==
    [d EXCEPT !.is_clone = FALSE, !.smdata_type = NoComponentType,
              !.id = "", !.name = "", !.cgoto = "", !.switch = 1]

\* StateMod_Diversion.__init__: initialize_statemod_diversion, and after it
\* the constructor of the base class.
StateMod_Diversion_init ==
    StateMod_Data_init(initialize_statemod_diversion([NoDiversion EXCEPT !.made = TRUE]))

\* StateMod_Data.dataset is set by read_statemod_file once the response file
\* has passed the free-format test.
dataset_is_set == pc >= 1

\* DataSet.set_dirty(component_type, True): the component of that type, if
\* the data set has one, is marked.
DataSet_set_dirty(flags, component_type) ==
    IF component_type \in Components
    THEN [flags EXCEPT ![component_type] = TRUE]
    ELSE flags

\* The flags after a setter of d found a value that differs.
dirty_after_set(d, flags, has_dataset) ==
    IF (~d.is_clone) /\ has_dataset THEN DataSet_set_dirty(flags, d.smdata_type) ELSE flags

\* The values client code sets.
Identifiers == {"", "D1"}
OnOff == {0, 1}

DataResponseFiles ==
    { <<[key |-> "Diversion_Station", value |-> f]>> : f \in Files }

InitData ==
    /\ InitDataSet
    /\ InitNoEntity
    /\ InitTS
    /\ props \in DataResponseFiles

\* Client code runs between calls of read_statemod_file.
ClientTurn == status # "reading"

NewDiversion ==
    /\ ClientTurn
    /\ ~div.made
    /\ div' = StateMod_Diversion_init
    /\ UNCHANGED <<readvars, visible, switches, checked, visHistory, tree, tsvars,
                   entity_file, entity_list>>

DataSetId ==
    /\ ClientTurn
    /\ div.made
    /\ \E s \in Identifiers :
          IF s # div.id
          THEN /\ dirty' = dirty_after_set(div, dirty, dataset_is_set)
               /\ div' = [div EXCEPT !.id = s, !.setter = "set_id"]
          ELSE UNCHANGED <<dirty, div>>
    /\ UNCHANGED <<status, pc, props, read_data, read_time_series, fileName, errorFlag, data,
                   heap, v, comp2, numpre, numeva, unhandled, log, uses,
                   visible, switches, checked, visHistory, tree, tsvars,
                   entity_file, entity_list>>

DataSetName ==
    /\ ClientTurn
    /\ div.made
    /\ \E s \in Identifiers :
          IF s # div.name
          THEN /\ dirty' = dirty_after_set(div, dirty, dataset_is_set)
               /\ div' = [div EXCEPT !.name = s, !.setter = "set_name"]
          ELSE UNCHANGED <<dirty, div>>
    /\ UNCHANGED <<status, pc, props, read_data, read_time_series, fileName, errorFlag, data,
                   heap, v, comp2, numpre, numeva, unhandled, log, uses,
                   visible, switches, checked, visHistory, tree, tsvars,
                   entity_file, entity_list>>

DataSetCgoto ==
    /\ ClientTurn
    /\ div.made
    /\ \E cgoto \in Identifiers :
          IF cgoto # div.cgoto
          THEN /\ dirty' = dirty_after_set(div, dirty, dataset_is_set)
               /\ div' = [div EXCEPT !.cgoto = cgoto, !.setter = "set_cgoto"]
          ELSE UNCHANGED <<dirty, div>>
    /\ UNCHANGED <<status, pc, props, read_data, read_time_series, fileName, errorFlag, data,
                   heap, v, comp2, numpre, numeva, unhandled, log, uses,
                   visible, switches, checked, visHistory, tree, tsvars,
                   entity_file, entity_list>>

DataSetSwitch ==
    /\ ClientTurn
    /\ div.made
    /\ \E i \in OnOff :
          IF i # div.switch
          THEN /\ dirty' = dirty_after_set(div, dirty, dataset_is_set)
               /\ div' = [div EXCEPT !.switch = i, !.setter = "set_switch"]
          ELSE UNCHANGED <<dirty, div>>
    /\ UNCHANGED <<status, pc, props, read_data, read_time_series, fileName, errorFlag, data,
                   heap, v, comp2, numpre, numeva, unhandled, log, uses,
                   visible, switches, checked, visHistory, tree, tsvars,
                   entity_file, entity_list>>

NextData ==
    \/ BeginRead
    \/ StepNameOnly
    \/ StepAnnounce
    \/ StepEntity
    \/ StepRights
    \/ StepTimeSeries
    \/ StepStreamBase
    \/ StepReuseSeries
    \/ StepSoilMoisture
    \/ StepUnhandled
    \/ FinishRead
    \/ NewDiversion
    \/ DataSetId
    \/ DataSetName
    \/ DataSetCgoto
    \/ DataSetSwitch

SpecData == InitData /\ [][NextData]_vars

\* C30: with a data set read, a setter of a diversion that is not a clone
\* marks the diversion stations dirty when the value it is given differs
\* from the one held, and changes no flag when it is the same.
C30_SetterMarksDiversionStations ==
    [][ (div.made /\ div'.made /\ dataset_is_set /\ ~div.is_clone /\ ClientTurn
            /\ UNCHANGED <<status, pc>>) =>
          IF <<div.id, div.name, div.cgoto, div.switch>>
                # <<div'.id, div'.name, div'.cgoto, div'.switch>>
          THEN dirty'["DIVERSION_STATIONS"]
          ELSE dirty' = dirty ]_vars

====
